---- MODULE Spec2Model ----
(***************************************************************************)
(* Reconciliation core of Ribir.                                           *)
(*                                                                         *)
(*  - SpecTree: WidgetTree (core/src/widget/widget_tree.rs): inflate,      *)
(*    mark_changed, repair (pop_need_build_widget, take_children,          *)
(*    try_replace_widget_or_rebuild, repair_children_by_key, drop) and     *)
(*    flush_to_render, over an indextree arena and a render tree.          *)
(*  - SpecDyn: DynRender (core/src/dynamic_widget.rs): perform_layout,     *)
(*    take_spread_cnt and regen_if_need over the widget arena.             *)
(***************************************************************************)
EXTENDS Integers, Sequences, FiniteSets, TLC

VARIABLES
  wt,       \* WidgetTree + RenderTree (record, fields named as in the source)
  env,      \* external application state read by Combination::build
  pc,       \* "idle" | "repair": position inside WidgetTree::repair
  debug,    \* cfg(debug_assertions): debug_assert! is compiled in
  pass,     \* snapshot taken when repair() is entered
  dy,       \* DynRender + its TreeArena (record)
  tm,       \* TexturesMgr + its two atlases (record)
  tp        \* TypographyMan (record)

vars == <<wt, env, pc, debug, pass, dy, tm, tp>>

None == 0

\* ------------------------------------------------------------------ bounds
\* longest child list a Row is built with
MaxLen == 2
\* capacity of the widget arena (nodes are never deallocated, drop() only detaches)
MaxNodes == 16
\* number of repair() passes (frames) that are followed
MaxPasses == 1
\* largest number of ids in changed_widgets and need_builds together
MaxMarks == 2

\* largest key of a generated widget (keys 1..MaxKey, None for a widget without key)
MaxKey == 3
\* longest fragment (number of sibling widgets) a generator yields
MaxWidth == 3
\* deepest single-child chain a generator with a static child yields
MaxDepth == 3
\* number of state changes (new pending fragments) that are followed
MaxRegens == 2
\* marks made by builds during one repair() pass
MaxSide == 1
MaxImgs == 2
MaxCalls == 3
MaxFrames == 2
\* side of a texture of an atlas, the texture_size of the limits of the GPU
MaxTexSize == 256
\* paragraphs of an input, glyphs of a run, largest advance of a glyph and the side of
\* the bounds of a TypographyCfg (lengths of the layouter are whole Em)
MaxParas == 2
MaxGlyphs == 2
MaxAdvance == 2
BoundsSide == 4

\* ------------------------------------------------------------ small helpers
Last(q) == q[Len(q)]
Front(q) == SubSeq(q, 1, Len(q) - 1)
Range(q) == {q[i] : i \in 1..Len(q)}
Remove(q, x) == SelectSeq(q, LAMBDA y : y # x)
SeqsUpTo(S, n) == UNION {[1..k -> S] : k \in 0..n}
NoDup(q) == \A i, j \in 1..Len(q) : q[i] = q[j] => i = j
\* the function f over 1..n as the sequence of its values
AsSeq(f) == f \o <<>>

\* ------------------------------------------------------------------ widgets
\* A BoxWidget: tpl names the widget type, key is the KeyDetect key (None when the
\* widget is not wrapped in KeyDetect), kids the children a Row was built with.
Widget(t, k, c) == [tpl |-> t, key |-> k, kids |-> c]

\* item codes of a Row's child list: 0 a keyless Text, 1 a Text with key 1, 2 a Text
\* with key 3, 3 the Combination KeyDetect("embed", EmbedKeyPost), whose key is 3 too
Items == 0..3
ItemWidget(c) ==
  CASE c = 3 -> Widget("Embed", 3, <<>>)
    [] c = 2 -> Widget("Text", 3, <<>>)
    [] OTHER -> Widget("Text", c, <<>>)

Envs == [list : SeqsUpTo(Items, MaxLen), nkey : {None, 1}]

classify(w) ==
  CASE w.tpl \in {"EmbedPost", "Embed"} -> "Combination"
    [] w.tpl = "Box" -> "SingleChild"
    [] w.tpl = "Row" -> "MultiChild"
    [] OTHER -> "Render"

is_render(w) == classify(w) # "Combination"
is_combination(w) == classify(w) = "Combination"
key(w) == w.key

\* CombinationWidget::build: a function of the external state at call time
build(w, e) ==
  IF w.tpl = "EmbedPost" THEN Widget("Row", 1, e.list) ELSE Widget("Box", e.nkey, <<>>)

\* WidgetId::take_children; has_children is FALSE where the source returns None
has_children(w) == classify(w) # "Render"
take_children(w, e) ==
  CASE classify(w) = "Combination" -> <<build(w, e)>>
    [] classify(w) = "SingleChild" -> <<Widget("Text", None, <<>>)>>
    [] classify(w) = "MultiChild" -> AsSeq([i \in 1..Len(w.kids) |-> ItemWidget(w.kids[i])])
    [] OTHER -> <<>>

\* ------------------------------------------------------------ indextree arena
\* s.arena[id] is the node data, s.parent[id] / s.children[id] the links.
RECURSIVE ancestors(_, _)
ancestors(s, id) ==
  IF id = None THEN <<>> ELSE <<id>> \o ancestors(s, s.parent[id])

RECURSIVE descendants(_, _)
descendants(s, id) ==
  {id} \cup UNION {descendants(s, s.children[id][i]) : i \in 1..Len(s.children[id])}

first_child(s, id) == IF s.children[id] = <<>> THEN None ELSE s.children[id][1]
last_child(s, id) == IF s.children[id] = <<>> THEN None ELSE Last(s.children[id])

node_detach(s, id) ==
  LET p == s.parent[id] IN
  IF p = None THEN s
  ELSE [s EXCEPT !.children[p] = Remove(@, id), !.parent[id] = None]

node_append(s, p, id) ==
  LET s1 == node_detach(s, id) IN
  [s1 EXCEPT !.children[p] = Append(@, id), !.parent[id] = p]

new_node(s, w) ==
  [s EXCEPT !.arena = Append(@, w), !.parent = Append(@, None),
            !.children = Append(@, <<>>), !.build_cnt = Append(@, 0)]

\* WidgetId::detach
detach(s, id) ==
  LET s1 == node_detach(s, id) IN
  IF s1.root = id THEN [s1 EXCEPT !.root = None] ELSE s1

\* WidgetId::append_widget for a whole list: the new ids are Len(arena)+1 ..
append_widgets(s, p, ws) ==
  LET n == Len(s.arena) k == Len(ws) IN
  [s EXCEPT !.arena = @ \o ws,
            !.parent = @ \o [i \in 1..k |-> p],
            !.children = AsSeq([i \in 1..(n + k) |->
                                  IF i = p THEN s.children[p] \o [j \in 1..k |-> n + j]
                                  ELSE IF i <= n THEN s.children[i] ELSE <<>>]),
            !.build_cnt = @ \o [i \in 1..k |-> 0]]

\* ---------------------------------------------------------------- render tree
RECURSIVE r_descendants(_, _)
r_descendants(s, rid) ==
  {rid} \cup UNION {r_descendants(s, s.r_children[rid][i]) : i \in 1..Len(s.r_children[rid])}

r_new_node(s, wid, w) ==
  [s EXCEPT !.r_owner = Append(@, wid), !.r_parent = Append(@, None),
            !.r_children = Append(@, <<>>), !.r_data = Append(@, w),
            !.r_alive = @ \cup {Len(s.r_owner) + 1}]

\* RenderId::prepend_object: the new object becomes the first child of prid
prepend_object(s, prid, wid, w) ==
  LET rid == Len(s.r_owner) + 1 IN
  [r_new_node(s, wid, w) EXCEPT !.r_children[prid] = <<rid>> \o @, !.r_parent[rid] = prid]

\* RenderTree::set_root
r_set_root(s, wid, w) ==
  [r_new_node(s, wid, w) EXCEPT !.r_root = Len(s.r_owner) + 1]

\* RenderId::drop: remove the render-object subtree
r_drop(s, rid) ==
  IF rid \notin s.r_alive THEN s
  ELSE LET p == s.r_parent[rid] IN
       [s EXCEPT !.r_alive = @ \ r_descendants(s, rid),
                 !.r_children = AsSeq([i \in 1..Len(@) |-> IF i = p THEN Remove(@[i], rid) ELSE @[i]]),
                 !.r_parent[rid] = None,
                 !.r_root = IF @ = rid THEN None ELSE @]

\* ------------------------------------------------------------------- inflate
Panic(s, why) == [s EXCEPT !.panic = why]

map_insert(f, k, v) == [x \in DOMAIN f \cup {k} |-> IF x = k THEN v ELSE f[x]]
map_remove(f, ks) == [x \in DOMAIN f \ ks |-> f[x]]

count_build(s, wid) ==
  IF is_combination(s.arena[wid]) THEN [s EXCEPT !.build_cnt[wid] = @ + 1] ELSE s

RECURSIVE inflate_loop(_, _, _)
inflate_loop(s, stack, e) ==
  IF stack = <<>> THEN s
  ELSE
    LET wid == Last(stack)[1]
        parent_rid == Last(stack)[2]
        w == s.arena[wid]
        children == take_children(w, e)
        s1 == count_build(s, wid)
        rid == IF is_render(w) THEN Len(s1.r_owner) + 1 ELSE parent_rid
        s2 == IF is_render(w)
              THEN [(IF parent_rid # None THEN prepend_object(s1, parent_rid, wid, w)
                                          ELSE r_set_root(s1, wid, w))
                     EXCEPT !.widget_to_render = map_insert(@, wid, rid)]
              ELSE s1
        n == Len(s2.arena)
        s3 == append_widgets(s2, wid, children)
    IN inflate_loop(s3, Front(stack) \o [i \in 1..Len(children) |-> <<n + i, rid>>], e)

\* WidgetTree::inflate. ancestors() of indextree starts with the node itself.
inflate_parent(s, wid) ==
  LET anc == SelectSeq(ancestors(s, wid), LAMBDA a : is_render(s.arena[a])) IN
  IF anc = <<>> THEN None
  ELSE IF anc[1] \in DOMAIN s.widget_to_render THEN s.widget_to_render[anc[1]] ELSE None

inflate(s, wid, e) == inflate_loop(s, <<<<wid, inflate_parent(s, wid)>>>>, e)

\* WidgetId::get: the Option of the node data the arena holds for id, the sequence of
\* at most one widget. The arena only ever gets nodes (new_node); detach unlinks a node
\* and leaves it allocated
get(s, id) == IF id \in 1..Len(s.arena) THEN <<s.arena[id]>> ELSE <<>>

\* ---------------------------------------------------------------------- drop
\* WidgetId::single_child: debug_assert!(first_child.is_some()),
\* debug_assert_eq!(first_child, last_child), first_child.expect(..)
single_child(s, id) == first_child(s, id)
single_child_panics(s, id, dbg) ==
  first_child(s, id) = None \/ (dbg /\ first_child(s, id) # last_child(s, id))

\* WidgetId::down_nearest_render_widget; None stands for a panic on the way down
RECURSIVE down_nearest_render_widget(_, _, _)
down_nearest_render_widget(s, id, dbg) ==
  IF is_combination(s.arena[id])
  THEN IF single_child_panics(s, id, dbg) THEN None
       ELSE down_nearest_render_widget(s, single_child(s, id), dbg)
  ELSE id

\* WidgetId::relative_to_render; None is the None of the source
relative_to_render(s, id, dbg) ==
  LET wid == down_nearest_render_widget(s, id, dbg) IN
  IF wid # None /\ wid \in DOMAIN s.widget_to_render THEN s.widget_to_render[wid] ELSE None

\* WidgetId::drop
drop(s, id, dbg) ==
  IF s.panic # "" THEN s
  ELSE IF down_nearest_render_widget(s, id, dbg) = None THEN Panic(s, "single_child")
  ELSE IF relative_to_render(s, id, dbg) = None THEN Panic(s, "must exists")
  ELSE
    LET rid == relative_to_render(s, id, dbg)
        sub == descendants(s, id)
        s1 == [s EXCEPT
                 !.widget_to_render = map_remove(@, {d \in sub : is_render(s.arena[d])}),
                 !.changed_widgets = @ \ sub,
                 !.need_builds = @ \ sub,
                 !.dropped = @ \cup sub]
    IN detach(r_drop(s1, rid), id)

\* -------------------------------------------------------------------- repair
\* a rebuild that appends the new widget to the parent and does not inflate it
append_only(s1, parent_id, widget, stack, e) ==
  [s |-> IF s1.panic # "" THEN s1 ELSE append_widgets(s1, parent_id, <<widget>>),
   stack |-> stack]

\* try_replace_widget_or_rebuild, else branch after node.drop(self): the new widget is
\* appended to the parent and inflated
rebuild_under(s1, parent_id, widget, stack, e) ==
  [s |-> IF s1.panic # "" THEN s1
         ELSE inflate(append_widgets(s1, parent_id, <<widget>>), Len(s1.arena) + 1, e),
   stack |-> stack]

\* WidgetTree::try_replace_widget_or_rebuild; the result carries the stack
try_replace_widget_or_rebuild(s, node, widget, stack, e, dbg) ==
  LET same_key == key(widget) # None /\ key(widget) = key(s.arena[node]) IN
  IF s.panic # "" THEN [s |-> s, stack |-> stack]
  ELSE IF same_key
  THEN [s |-> [s EXCEPT !.changed_widgets = IF is_render(widget) THEN @ \cup {node} ELSE @,
                        !.arena[node] = widget],
        stack |-> Append(stack, node)]
  ELSE IF s.parent[node] = None
  THEN [s |-> Panic(s, "parent should exists!"), stack |-> stack]
  ELSE rebuild_under(drop(s, node, dbg), s.parent[node], widget, stack, e)

\* repair_children_by_key, first loop: keyed old children are detached and put into
\* key_children (a later insert of the same key overwrites), keyless ones are dropped
RECURSIVE collect_key_children(_, _, _, _)
collect_key_children(s, olds, key_children, dbg) ==
  IF olds = <<>> \/ s.panic # "" THEN [s |-> s, key_children |-> key_children]
  ELSE
    LET id == Head(olds) k == key(s.arena[id]) IN
    IF k # None
    THEN collect_key_children(detach(s, id), Tail(olds), map_insert(key_children, k, id), dbg)
    ELSE collect_key_children(drop(s, id, dbg), Tail(olds), key_children, dbg)

\* repair_children_by_key, second loop over new_children
RECURSIVE place_new_children(_, _, _, _, _, _, _)
\* the rest of the loop after a reused child went through try_replace_widget_or_rebuild
place_rest(r, node, ws, key_children, e, dbg) ==
  place_new_children(r.s, node, ws, key_children, r.stack, e, dbg)

place_new_children(s, node, ws, key_children, stack, e, dbg) ==
  IF ws = <<>> \/ s.panic # "" THEN [s |-> s, key_children |-> key_children, stack |-> stack]
  ELSE
    LET w == Head(ws) k == key(w) IN
    IF k # None /\ k \in DOMAIN key_children
    THEN place_rest(try_replace_widget_or_rebuild(node_append(s, node, key_children[k]),
                                                  key_children[k], w, stack, e, dbg),
                    node, Tail(ws), map_remove(key_children, {k}), e, dbg)
    ELSE place_new_children(inflate(append_widgets(s, node, <<w>>), Len(s.arena) + 1, e),
                            node, Tail(ws), key_children, stack, e, dbg)

\* repair_children_by_key, last loop: every id left in key_children is dropped
RECURSIVE drop_all(_, _, _)
drop_all(s, ids, dbg) ==
  IF ids = {} THEN s
  ELSE LET v == CHOOSE x \in ids : \A y \in ids : x <= y IN drop_all(drop(s, v, dbg), ids \ {v}, dbg)

\* repair_children_by_key after its first loop (c) and after its second loop (p)
place_collected(c, node, new_children, stack, e, dbg) ==
  place_new_children(c.s, node, new_children, c.key_children, stack, e, dbg)
drop_unplaced(p, dbg) ==
  [s |-> drop_all(p.s, {p.key_children[k] : k \in DOMAIN p.key_children}, dbg),
   stack |-> p.stack]

repair_children_by_key(s, node, new_children, stack, e, dbg) ==
  drop_unplaced(place_collected(collect_key_children(s, s.children[node], <<>>, dbg),
                                node, new_children, stack, e, dbg),
                dbg)

keys_of(ws) == SelectSeq([i \in 1..Len(ws) |-> key(ws[i])], LAMBDA k : k # None)

\* what one reconciliation is recorded as: the node, the freshly produced child list,
\* the node's children before it and the widgets its children hold after it
log_reconcile(s0, s, node, new_children) ==
  IF s.panic # "" THEN s
  ELSE [s EXCEPT !.recon = Append(@, [node |-> node, new |-> new_children,
                                      old |-> s0.children[node],
                                      old_keys |-> AsSeq([i \in 1..Len(s0.children[node]) |->
                                                      key(s0.arena[s0.children[node][i]])]),
                                      old_rids |-> AsSeq([i \in 1..Len(s0.children[node]) |->
                                                      LET c == s0.children[node][i] IN
                                                      IF c \in DOMAIN s0.widget_to_render
                                                      THEN s0.widget_to_render[c] ELSE None]),
                                      after |-> AsSeq([i \in 1..Len(s.children[node]) |->
                                                   s.arena[s.children[node][i]]])])]

\* the inner loop of WidgetTree::repair over `stack`
RECURSIVE repair_loop(_, _, _, _)
\* the rest of the loop after the children of need_build were reconciled (r)
repair_rest(s1, r, need_build, children, e, dbg) ==
  repair_loop(log_reconcile(s1, r.s, need_build, children), r.stack, e, dbg)

\* one iteration for the widget need_build with its freshly taken children, after the
\* build was counted (s1)
repair_node(s1, need_build, children, stack, e, dbg) ==
  IF ~has_children(s1.arena[need_build]) THEN repair_loop(s1, stack, e, dbg)
  ELSE IF Len(children) = 1
  THEN IF single_child_panics(s1, need_build, dbg)
       THEN Panic(s1, "single_child")
       ELSE repair_rest(s1,
                        try_replace_widget_or_rebuild(
                          s1, single_child(s1, need_build), children[1], stack, e, dbg),
                        need_build, children, e, dbg)
  ELSE repair_rest(s1, repair_children_by_key(s1, need_build, children, stack, e, dbg),
                   need_build, children, e, dbg)

repair_loop(s, stack, e, dbg) ==
  IF stack = <<>> \/ s.panic # "" THEN s
  ELSE repair_node(count_build(s, Last(stack)), Last(stack),
                   take_children(s.arena[Last(stack)], e), Front(stack), e, dbg)

\* WidgetTree::pop_need_build_widget: `first` is need_builds.iter().next(), any element
\* of the HashSet; find() returns the first id of ancestors(first), which starts with
\* `first` itself, that is in need_builds
pop_need_build_widget(s, first) ==
  LET found == SelectSeq(ancestors(s, first), LAMBDA a : a \in s.need_builds) IN
  IF found = <<>> THEN None ELSE found[1]

\* one iteration of the outer loop of WidgetTree::repair
repair_iteration(s, first, e, dbg) ==
  LET topmost == pop_need_build_widget(s, first)
      s1 == [s EXCEPT !.need_builds = @ \ {topmost},
                      !.popped = [id |-> topmost,
                                  dirty_above |-> Range(Tail(ancestors(s, topmost)))
                                                    \cap s.need_builds],
                      !.recon = <<>>]
  IN IF dbg /\ ~is_combination(s.arena[topmost])
     THEN Panic(s1, "rebuild widget must be combination widget.")
     ELSE repair_loop(s1, <<topmost>>, e, dbg)

\* a flush that forgets the render objects of the changed widgets
flush_and_forget(s) ==
  [s EXCEPT !.widget_to_render = map_remove(@, s.changed_widgets), !.changed_widgets = {}]

\* WidgetTree::flush_to_render
flush_to_render(s) ==
  IF \E wid \in s.changed_widgets : wid \notin DOMAIN s.widget_to_render
  THEN Panic(s, "Changed widget should always render widget!")
  ELSE IF \E wid \in s.changed_widgets : ~is_render(s.arena[wid])
  THEN Panic(s, "Must be a render widget!")
  ELSE IF \E wid \in s.changed_widgets : s.widget_to_render[wid] \notin s.r_alive
  THEN Panic(s, "render object must exists!")
  ELSE [s EXCEPT !.r_data = AsSeq([r \in 1..Len(@) |->
                               IF \E wid \in s.changed_widgets : s.widget_to_render[wid] = r
                               THEN s.arena[s.r_owner[r]] ELSE @[r]]),
                 !.changed_widgets = {}]

\* a mark that puts every widget into need_builds
mark_need_build(s, id) == [s EXCEPT !.need_builds = @ \cup {id}]

\* WidgetId::mark_changed
mark_changed(s, id) ==
  IF is_render(s.arena[id]) THEN [s EXCEPT !.changed_widgets = @ \cup {id}]
  ELSE [s EXCEPT !.need_builds = @ \cup {id}]

\* WidgetTree::default() followed by WidgetTree::set_root
EmptyTree ==
  [arena |-> <<>>, parent |-> <<>>, children |-> <<>>, root |-> None,
   changed_widgets |-> {}, need_builds |-> {}, widget_to_render |-> <<>>,
   r_owner |-> <<>>, r_parent |-> <<>>, r_children |-> <<>>, r_data |-> <<>>,
   r_alive |-> {}, r_root |-> None,
   panic |-> "", build_cnt |-> <<>>, recon |-> <<>>, dropped |-> {},
   popped |-> [id |-> None, dirty_above |-> {}]]

set_root(s, data, e) ==
  inflate([new_node(s, data) EXCEPT !.root = Len(s.arena) + 1], Len(s.arena) + 1, e)

\* ======================================================== DynRender (SpecDyn)
\* d.data[id] = [oid, key]: the widget held by node id; oid names the widget object
\* (the id it was created under), key its AnyKey key or None. d.alive is the set of
\* ids of the arena, d.events the lifecycle calls of the current layout.
\* An event [ev, oid, id, old]: the call ev on the widget oid held by node id; old is
\* the widget handed to record_before_value, None for every other call.
Ev(e, o, i, a) == [ev |-> e, oid |-> o, id |-> i, old |-> a]
Emit(d, e) == [d EXCEPT !.events = Append(@, e)]

d_descendants(d, id) == descendants(d, id)

\* a generated widget is a single-child chain of nodes, given by its keys root first
\* Widget::into_subtree(None, arena, wnd_ctx): the chain's nodes, root id Len(data) + 1
into_subtree(d, chain) ==
  LET n == Len(d.data) k == Len(chain) IN
  [d EXCEPT !.data = @ \o [i \in 1..k |-> [oid |-> n + i, key |-> chain[i]]],
            !.parent = @ \o [i \in 1..k |-> IF i = 1 THEN None ELSE n + i - 1],
            !.children = @ \o [i \in 1..k |-> IF i = k THEN <<>> ELSE <<n + i + 1>>],
            !.alive = @ \cup {n + i : i \in 1..k}]

\* new_widgets of regen_if_need: every widget of the fragment built into a subtree,
\* the roots' ids in order
RECURSIVE build_widgets(_, _)
build_widgets(d, frag) ==
  IF frag = <<>> THEN [d |-> d, ids |-> <<>>]
  ELSE LET r == build_widgets(into_subtree(d, Head(frag)), Tail(frag)) IN
       [d |-> r.d, ids |-> <<Len(d.data) + 1>> \o r.ids]

\* widget_id::empty_node: a Void node
empty_node(d) == into_subtree(d, <<None>>)

\* WidgetId::swap_id: the two ids exchange their data, their children and their place
\* in the tree (b is the root of a detached subtree)
swap_id(d, a, b) ==
  LET p == d.parent[a]
      n == Len(d.data)
      ReplaceIn(q) == AsSeq([j \in 1..Len(q) |-> IF q[j] = a THEN b ELSE q[j]])
  IN
  [d EXCEPT !.data = AsSeq([i \in 1..n |->
                              IF i = a THEN d.data[b] ELSE IF i = b THEN d.data[a] ELSE d.data[i]]),
            !.children = AsSeq([i \in 1..n |->
                                  IF i = a THEN d.children[b]
                                  ELSE IF i = b THEN d.children[a]
                                  ELSE IF i = p THEN ReplaceIn(d.children[i])
                                  ELSE d.children[i]]),
            !.parent = AsSeq([i \in 1..n |->
                                IF i = a THEN None
                                ELSE IF i = b THEN p
                                ELSE IF d.parent[i] = a THEN b
                                ELSE IF d.parent[i] = b THEN a
                                ELSE d.parent[i]])]

IndexOf(q, x) == CHOOSE i \in 1..Len(q) : q[i] = x
InsertAt(q, i, x) == SubSeq(q, 1, i - 1) \o <<x>> \o SubSeq(q, i, Len(q))

\* WidgetId::insert_before / insert_after: id becomes the sibling before / after ref
insert_before(d, ref, id) ==
  LET d1 == node_detach(d, id) p == d1.parent[ref] IN
  [d1 EXCEPT !.children[p] = InsertAt(@, IndexOf(@, ref), id), !.parent[id] = p]

insert_after(d, ref, id) ==
  LET d1 == node_detach(d, id) p == d1.parent[ref] IN
  [d1 EXCEPT !.children[p] = InsertAt(@, IndexOf(@, ref) + 1, id), !.parent[id] = p]

next_sibling(d, id) ==
  LET p == d.parent[id] IN
  IF p = None THEN None
  ELSE LET i == IndexOf(d.children[p], id) IN
       IF i = Len(d.children[p]) THEN None ELSE d.children[p][i + 1]

\* WidgetId::remove_subtree: on_disposed is dispatched to every node of the subtree,
\* the subtree is unlinked and its nodes deallocated (their widgets are gone: the data
\* of a removed id keeps only the name of the widget it held)
RECURSIVE preorder(_, _)
RECURSIVE preorder_list(_, _)
preorder(d, id) == <<id>> \o preorder_list(d, d.children[id])
preorder_list(d, ids) ==
  IF ids = <<>> THEN <<>> ELSE preorder(d, Head(ids)) \o preorder_list(d, Tail(ids))

remove_subtree(d, id) ==
  LET sub == preorder(d, id) IN
  [node_detach(d, id) EXCEPT
     !.alive = @ \ Range(sub),
     !.data = AsSeq([i \in 1..Len(@) |->
                       IF i \in Range(sub) THEN [oid |-> @[i].oid, key |-> None] ELSE @[i]]),
     !.events = @ \o [i \in 1..Len(sub) |-> Ev("on_disposed", d.data[sub[i]].oid, sub[i], None)]]

\* WidgetId::on_mounted / on_mounted_subtree
on_mounted(d, id) == Emit(d, Ev("on_mounted", d.data[id].oid, id, None))
on_mounted_subtree(d, id) ==
  LET sub == preorder(d, id) IN
  [d EXCEPT !.events = @ \o [i \in 1..Len(sub) |-> Ev("on_mounted", d.data[sub[i]].oid, sub[i], None)]]

\* inspect_key: the callback runs when the node's widget is a key holder; assert_get
\* fails on an id that is not in the arena
has_key(d, id) == d.data[id].key # None
inspect_key_panics(d, id) == id \notin d.alive

\* dynamic_widget::single_down: None when the last node reached has no child;
\* res.unwrap() panics when a node before it has none
d_single_child(d, id) == first_child(d, id)
RECURSIVE single_down(_, _, _)
single_down(d, id, down_level) ==
  IF down_level <= 0 \/ id = None THEN id
  ELSE single_down(d, d_single_child(d, id), down_level - 1)
RECURSIVE single_down_panics(_, _, _)
single_down_panics(d, id, down_level) ==
  IF down_level <= 0 THEN FALSE
  ELSE IF id = None THEN TRUE
  ELSE single_down_panics(d, d_single_child(d, id), down_level - 1)

\* dynamic_widget::down_to_leaf: <<leaf, depth>>
RECURSIVE down_to_leaf(_, _)
down_to_leaf(d, id) ==
  IF d_single_child(d, id) = None THEN <<id, 0>>
  ELSE LET r == down_to_leaf(d, d_single_child(d, id)) IN <<r[1], r[2] + 1>>

\* the declared children are left where they are
append_none(d, p, cs) == d

\* declare_child_parent.children(arena1).for_each(|c| new_leaf.append(c, arena2))
RECURSIVE append_all(_, _, _)
append_all(d, p, cs) ==
  IF cs = <<>> THEN d ELSE append_all(node_append(d, p, Head(cs)), p, Tail(cs))

\* ------------------------------------------------------------ regen_if_need
DynDepth(n) == [kind |-> "DynDepth", depth |-> n, width |-> 0, directly_spread |-> FALSE]
WholeSubtree(w, s) == [kind |-> "WholeSubtree", depth |-> 0, width |-> w, directly_spread |-> s]
NoGenInfo == [kind |-> "None", depth |-> 0, width |-> 0, directly_spread |-> FALSE]

\* the AnyKey hooks mounted / disposed / record_before_value of the key holder at id
key_mounted(d, id) == Emit(d, Ev("key_mounted", d.data[id].oid, id, None))
key_disposed(d, id) == Emit(d, Ev("key_disposed", d.data[id].oid, id, None))
record_before_value(d, id, old) ==
  Emit(d, Ev("record_before_value", d.data[id].oid, id, d.data[old].oid))

RunRecord(d, ids) ==
  AsSeq([i \in 1..Len(ids) |->
           [id |-> ids[i], oid |-> d.data[ids[i]].oid, key |-> d.data[ids[i]].key]])

\* the record of the run that is replaced: swap_id has moved its first widget from the
\* generator's id sign to olds[1], the id it had before the regeneration is sign
OldRunRecord(d, sign, olds) ==
  AsSeq([i \in 1..Len(olds) |->
           [id |-> IF i = 1 THEN sign ELSE olds[i],
            oid |-> d.data[olds[i]].oid, key |-> d.data[olds[i]].key]])

\* the chain of ids from id down through single children
RECURSIVE chain_ids(_, _)
chain_ids(d, id) ==
  IF d_single_child(d, id) = None THEN <<id>> ELSE <<id>> \o chain_ids(d, d_single_child(d, id))

\* the mount loop of the DynDepth arm: `w` is bound once and never advanced, so the
\* loop leaves only when the generated root is the generated leaf; otherwise it calls
\* on_mounted on the root again and again and never returns (d.hung)
mount_chain(d, w, new_leaf) ==
  IF w = new_leaf THEN on_mounted(d, w)
  ELSE [on_mounted(on_mounted(d, w), w) EXCEPT !.hung = TRUE]

\* the DynDepth arm
regen_dyn_depth(d, gi, sign, old_sign, new_widgets) ==
  IF Len(new_widgets) # 1 THEN [d |-> Panic(d, "assert_eq new_widgets.len()"), gi |-> gi]
  ELSE IF single_down_panics(d, old_sign, gi.depth - 1)
  THEN [d |-> Panic(d, "res.unwrap()"), gi |-> gi]
  ELSE
    LET declare_child_parent == single_down(d, old_sign, gi.depth - 1)
        leaf == down_to_leaf(d, sign)
        new_leaf == leaf[1]
        new_depth == leaf[2] + 1
        d1 == IF declare_child_parent # None
              THEN append_all(d, new_leaf, d.children[declare_child_parent]) ELSE d
        old_key == IF has_key(d1, old_sign) THEN d1.data[old_sign].key ELSE None
        d2 == remove_subtree(insert_after(d1, old_sign, sign), old_sign)
        d3 == IF old_key # None /\ has_key(d2, sign)
              THEN IF inspect_key_panics(d2, old_sign) THEN Panic(d2, "Widget not exists")
                   ELSE IF old_key = d2.data[sign].key THEN record_before_value(d2, sign, old_sign)
                   ELSE key_mounted(key_disposed(d2, old_sign), sign)
              ELSE d2
        d4 == IF d3.panic # "" THEN d3 ELSE mount_chain(d3, sign, new_leaf)
    IN [d |-> [d4 EXCEPT !.last = [op |-> "depth", old |-> OldRunRecord(d, sign, <<old_sign>>),
                                   new |-> RunRecord(d4, chain_ids(d, sign))]],
        gi |-> IF d4.panic # "" \/ d4.hung THEN gi ELSE [gi EXCEPT !.depth = new_depth]]

\* new_widgets.iter().rev().for_each(|n| { cursor.insert_before(*n); cursor = *n })
RECURSIVE insert_run(_, _, _)
insert_run(d, cursor, ns) ==
  IF ns = <<>> THEN d ELSE insert_run(insert_before(d, cursor, Last(ns)), Last(ns), Front(ns))

\* the `siblings` ids from old_sign on; shorter when next_sibling runs out (remove.unwrap())
RECURSIVE old_run(_, _, _)
old_run(d, o, n) ==
  IF n = 0 \/ o = None THEN <<>> ELSE <<o>> \o old_run(d, next_sibling(d, o), n - 1)

\* a variant of collect_old_keys that finds no key holder in the old run
collect_no_keys(d, olds, m) == m

\* old_key_list: key -> id, a later sibling with the same key overwrites
RECURSIVE collect_old_keys(_, _, _)
collect_old_keys(d, olds, m) ==
  IF olds = <<>> THEN m
  ELSE collect_old_keys(d, Tail(olds),
         IF has_key(d, Head(olds)) THEN map_insert(m, d.data[Head(olds)].key, Head(olds)) ELSE m)

\* a variant of diff_new_keys that never looks a key up: every new key holder is mounted
RECURSIVE diff_unmatched(_, _, _)
diff_unmatched(d, ns, m) ==
  IF ns = <<>> THEN [d |-> d, m |-> m]
  ELSE diff_unmatched(IF has_key(d, Head(ns)) THEN key_mounted(d, Head(ns)) ELSE d, Tail(ns), m)

\* the loop over new_widgets of the key diff
RECURSIVE diff_new_keys(_, _, _)
diff_new_keys(d, ns, m) ==
  IF ns = <<>> THEN [d |-> d, m |-> m]
  ELSE LET n == Head(ns) k == d.data[n].key IN
       IF ~has_key(d, n) THEN diff_new_keys(d, Tail(ns), m)
       ELSE IF k \in DOMAIN m
       THEN diff_new_keys(record_before_value(d, n, m[k]), Tail(ns), map_remove(m, {k}))
       ELSE diff_new_keys(key_mounted(d, n), Tail(ns), m)

\* a variant of dispose_left that leaves the unmatched old key holders alone
dispose_none(d, m) == d

\* old_key_list.iter().for_each(.. disposed()), taken in the order of the keys
RECURSIVE dispose_left(_, _)
dispose_left(d, m) ==
  IF DOMAIN m = {} THEN d
  ELSE LET k == CHOOSE x \in DOMAIN m : \A y \in DOMAIN m : x <= y IN
       dispose_left(key_disposed(d, m[k]), map_remove(m, {k}))

\* a variant of remove_run that removes only the first sibling of the old run
remove_first(d, olds) == remove_subtree(d, Head(olds))

\* the second loop over `siblings`: remove_subtree on every sibling of the old run
RECURSIVE remove_run(_, _)
remove_run(d, olds) ==
  IF olds = <<>> THEN d ELSE remove_run(remove_subtree(d, Head(olds)), Tail(olds))

RECURSIVE mount_run(_, _)
mount_run(d, ns) ==
  IF ns = <<>> THEN d ELSE mount_run(on_mounted_subtree(d, Head(ns)), Tail(ns))

\* the WholeSubtree arm
regen_whole_subtree(d, gi, sign, old_sign, new_widgets) ==
  LET d1 == insert_run(d, old_sign, new_widgets)
      olds == old_run(d1, old_sign, gi.width)
  IN IF Len(olds) < gi.width THEN [d |-> Panic(d1, "remove.unwrap()"), gi |-> gi]
     ELSE
       LET r == diff_new_keys(d1, new_widgets, collect_old_keys(d1, olds, <<>>))
           d2 == dispose_left(r.d, r.m)
           d3 == mount_run(remove_run(d2, olds), new_widgets)
       IN [d |-> [d3 EXCEPT !.last = [op |-> "whole", old |-> OldRunRecord(d1, sign, olds),
                                      new |-> RunRecord(d1, new_widgets)]],
           gi |-> [gi EXCEPT !.width = Len(new_widgets)]]

\* LayoutCtx::has_child
has_child(d, id) == d.children[id] # <<>>

\* a GenerationInfo that starts as WholeSubtree whatever the node has
init_whole_subtree(d, gi) == IF gi.kind = "None" THEN WholeSubtree(1, FALSE) ELSE gi

\* a GenerationInfo whose kind is chosen anew from every pending fragment
init_from_fragment(d, gi) ==
  IF Len(d.dyns.frag) <= 1
  THEN DynDepth(IF gi.depth > 0 THEN gi.depth ELSE 1)
  ELSE WholeSubtree(IF gi.width > 0 THEN gi.width ELSE 1, FALSE)

\* gen_info.get_or_insert_with(..): the GenerationInfo of a first regeneration
init_gen_info(d, gi) ==
  IF gi.kind = "None"
  THEN IF has_child(d, d.sign) THEN DynDepth(1) ELSE WholeSubtree(1, FALSE)
  ELSE gi

\* DynRender::regen_if_need of the DynRender at d.sign whose gen_info is gi, for the
\* pending fragment frag (dyns.take() returned Some)
regen_if_need(d, gi, frag) ==
  LET gen_info == init_gen_info(d, gi)
      b == build_widgets(d, frag)
      b1 == IF b.ids = <<>> THEN [d |-> empty_node(b.d), ids |-> <<Len(b.d.data) + 1>>] ELSE b
      old_sign == b1.ids[1]
      new_widgets == <<d.sign>> \o Tail(b1.ids)
      d1 == swap_id(b1.d, d.sign, old_sign)
  IN IF gen_info.kind = "DynDepth"
     THEN regen_dyn_depth(d1, gen_info, d.sign, old_sign, new_widgets)
     ELSE regen_whole_subtree(d1, gen_info, d.sign, old_sign, new_widgets)

\* DynRender::take_spread_cnt: Some(width) exactly when directly_spread is set
take_spread_cnt(gi) == IF gi.kind = "WholeSubtree" /\ gi.directly_spread THEN gi.width ELSE None

\* the loop of the spread branch of perform_layout over `width` siblings from ctx.id
RECURSIVE mount_spread(_, _, _)
mount_spread(d, sibling, n) ==
  IF n = 0 \/ d.panic # "" THEN d
  ELSE IF sibling = None THEN Panic(d, "sibling.unwrap()")
  ELSE LET d1 == IF has_key(d, sibling) THEN key_mounted(d, sibling) ELSE d IN
       mount_spread(on_mounted(d1, sibling), next_sibling(d, sibling), n - 1)

\* a layout of the inner DynRender that regenerates without looking for a pending
\* fragment
inner_regen_always(d) ==
  IF d.inner.live
  THEN LET r == regen_if_need(d, d.inner.gen_info, <<d.inner.first>>) IN
       [r.d EXCEPT !.inner = [@ EXCEPT !.some = FALSE, !.gen_info = r.gi]]
  ELSE d

\* perform_layout of the DynRender that spread() left in self_render: it holds the
\* first widget of the initial fragment as its pending dyns
inner_perform_layout(d) ==
  IF d.inner.live /\ d.inner.some
  THEN LET r == regen_if_need(d, d.inner.gen_info, <<d.inner.first>>) IN
       [r.d EXCEPT !.inner = [@ EXCEPT !.some = FALSE, !.gen_info = r.gi]]
  ELSE d

\* DynRender::perform_layout of the generator node
perform_layout(d) ==
  LET d0 == [d EXCEPT !.events = <<>>, !.last = [op |-> "none", old |-> <<>>, new |-> <<>>]] IN
  IF take_spread_cnt(d0.gen_info) # None
  THEN LET width == take_spread_cnt(d0.gen_info)
           d1 == inner_perform_layout([d0 EXCEPT !.gen_info.directly_spread = FALSE])
       IN [mount_spread(d1, d1.sign, width) EXCEPT !.last.op = "spread"]
  ELSE IF d0.dyns.some
  THEN LET r == regen_if_need([d0 EXCEPT !.dyns.some = FALSE], d0.gen_info, d0.dyns.frag) IN
       [r.d EXCEPT !.gen_info = r.gi, !.inner.live = FALSE, !.built = d0.dyns.frag,
                   !.regens = @ + 1]
  ELSE inner_perform_layout(d0)

\* ------------------------------------------------------- SpecTree: actions
DynIdle == [scenario |-> "none"]
TexIdle == [panic |-> "none"]
TextIdle == [panic |-> "none"]

NoPass == [n |-> 0, need |-> {}, parent |-> <<>>, children |-> <<>>, arena |-> <<>>,
           widget_to_render |-> <<>>, reuse_claim |-> {}, dup_seen |-> FALSE, side |-> 0]

Attached(s) == IF s.root = None THEN {} ELSE descendants(s, s.root)

\* Window::new: set_root(root) on empty trees; debug_assertions is a property of the build
InitTree ==
  /\ env \in Envs
  /\ debug \in BOOLEAN
  /\ wt = set_root(EmptyTree, Widget("EmbedPost", None, <<>>), env)
  /\ pc = "idle"
  /\ pass = NoPass
  /\ dy = DynIdle
  /\ tm = TexIdle
  /\ tp = TextIdle

\* the application state changes between two frames
SetState(e) ==
  /\ pc = "idle" /\ wt.panic = "" /\ pass.n < MaxPasses
  /\ wt.changed_widgets \cup wt.need_builds = {}
  /\ e # env
  /\ env' = e
  /\ UNCHANGED <<wt, pc, debug, pass, dy, tm, tp>>

MarkChanged(id) ==
  /\ pc = "idle" /\ wt.panic = "" /\ pass.n < MaxPasses
  /\ id \in Attached(wt)
  /\ id \notin wt.changed_widgets \cup wt.need_builds
  /\ Cardinality(wt.changed_widgets \cup wt.need_builds) < MaxMarks
  /\ wt' = mark_changed(wt, id)
  /\ UNCHANGED <<env, pc, debug, pass, dy, tm, tp>>

\* repair() is entered; after the last pass that is followed, repair() is entered once
\* more right away (nothing was marked in between)
RepairBegin ==
  /\ pc = "idle" /\ wt.panic = ""
  /\ \/ pass.n < MaxPasses
     \/ pass.n = MaxPasses /\ wt.need_builds = {} /\ wt.changed_widgets = {}
  /\ pc' = "repair"
  /\ pass' = [n |-> pass.n + 1, need |-> wt.need_builds, parent |-> wt.parent, children |-> wt.children,
              arena |-> wt.arena, widget_to_render |-> wt.widget_to_render,
              reuse_claim |-> {}, dup_seen |-> FALSE, side |-> 0]
  /\ wt' = [wt EXCEPT !.build_cnt = AsSeq([i \in 1..Len(@) |-> 0]), !.recon = <<>>,
                      !.dropped = {}, !.popped = [id |-> None, dirty_above |-> {}]]
  /\ UNCHANGED <<env, debug, dy, tm, tp>>

\* the old children of a reconciled node whose key is the key of a new child, and
\* whether a key occurs twice among the old or among the new children
ReuseClaim(r) ==
  {<<r.old[i], r.old_rids[i]>> : i \in {j \in 1..Len(r.old) :
      r.old_keys[j] # None /\ r.old_keys[j] \in Range(keys_of(r.new))}}
DupKeys(r) ==
  \/ ~NoDup(keys_of(r.new))
  \/ ~NoDup(SelectSeq(r.old_keys, LAMBDA k : k # None))

\* a build of the iteration may reach the tree through its BuildCtx and mark a widget:
\* side is the Combination widget it marks, None when the builds mark nothing
BuildMarks(s, side) == IF side = None THEN s ELSE mark_changed(s, side)

RepairPop(first, side) ==
  /\ pc = "repair" /\ wt.panic = ""
  /\ first \in wt.need_builds
  /\ side # None =>
       /\ pass.side < MaxSide /\ wt.need_builds = {first}
       /\ side \in Attached(wt) /\ is_combination(wt.arena[side])
  /\ \E s \in {repair_iteration(wt, first, env, debug)} :
       /\ Len(s.arena) <= MaxNodes
       /\ side # None => s.panic = "" /\ s.need_builds = {} /\ side \in Attached(s)
       /\ wt' = BuildMarks(s, side)
       /\ pass' = [pass EXCEPT
                     !.reuse_claim = @ \cup UNION {ReuseClaim(s.recon[i]) : i \in 1..Len(s.recon)},
                     !.dup_seen = @ \/ \E i \in 1..Len(s.recon) : DupKeys(s.recon[i]),
                     !.side = IF side = None THEN @ ELSE @ + 1]
  /\ UNCHANGED <<env, pc, debug, dy, tm, tp>>

RepairFlush ==
  /\ pc = "repair" /\ wt.panic = ""
  /\ wt.need_builds = {}
  /\ wt' = flush_to_render(wt)
  /\ pc' = "idle"
  /\ UNCHANGED <<env, debug, pass, dy, tm, tp>>

\* test::drop_all, for any node of the freshly inflated tree: id.drop(tree, render_tree)
DropSubtree(id) ==
  /\ pc = "idle" /\ wt.panic = "" /\ pass.n = 0
  /\ wt.changed_widgets # {} /\ wt.need_builds # {}
  /\ id \in Attached(wt)
  /\ wt' = drop(wt, id, debug)
  /\ pc' = "dropped"
  /\ UNCHANGED <<env, debug, pass, dy, tm, tp>>

\* id.drop(tree, render_tree) once more on a node of the subtree that was dropped: its
\* nearest render widget has no widget_to_render entry any more
DropAgain(id) ==
  /\ pc = "dropped" /\ wt.panic = ""
  /\ id \in wt.dropped
  /\ wt' = drop(wt, id, debug)
  /\ UNCHANGED <<env, pc, debug, pass, dy, tm, tp>>

NextTree ==
  \/ \E e \in Envs : SetState(e)
  \/ \E id \in 1..MaxNodes : MarkChanged(id)
  \/ RepairBegin
  \/ \E first \in 1..MaxNodes : RepairPop(first, None)
  \/ \E first, side \in 1..MaxNodes : RepairPop(first, side)
  \/ RepairFlush
  \/ \E id \in 1..MaxNodes : DropSubtree(id)
  \/ \E id \in 1..MaxNodes : DropAgain(id)

SpecTree == InitTree /\ [][NextTree]_vars

\* -------------------------------------------------------- SpecDyn: actions
KeyOpt == 0..MaxKey

\* the fragments of a multi-child generator: up to MaxWidth widgets without children
SpreadFrags == {AsSeq([i \in 1..Len(q) |-> <<q[i]>>]) : q \in SeqsUpTo(KeyOpt, MaxWidth)}

\* the fragments of a generator with a static child (Option<widget>): nothing, or one
\* single-child chain of up to MaxDepth widgets whose root may be a key holder
DepthChains == {<<k>> \o [i \in 1..(n - 1) |-> None] : k \in KeyOpt, n \in 1..MaxDepth}
\* a fragment of two widgets, which DynRender::new accepts for any DynsIntoWidget
DepthPairs == {<< <<None>>, <<None>> >>}
DepthFrags == {<<>>} \cup {<<c>> : c \in DepthChains} \cup DepthPairs

NoLast == [op |-> "none", old |-> <<>>, new |-> <<>>]
NoInner == [live |-> FALSE, some |-> FALSE, first |-> <<>>, gen_info |-> NoGenInfo]

\* DynRender::spread under a parent P (1) between the static siblings A (2) and B: the
\* generator node (3) holds Void until its first layout, the other widgets of the
\* fragment follow it as plain siblings
spread(f) ==
  LET widgets == IF f = <<>> THEN <<<<None>>>> ELSE f
      n == Len(widgets)
  IN [scenario |-> "spread",
      data |-> AsSeq([i \in 1..(n + 3) |->
                  [oid |-> i, key |-> IF i \in 4..(n + 2) THEN widgets[i - 2][1] ELSE None]]),
      parent |-> AsSeq([i \in 1..(n + 3) |-> IF i = 1 THEN None ELSE 1]),
      children |-> AsSeq([i \in 1..(n + 3) |->
                            IF i = 1 THEN AsSeq([j \in 1..(n + 2) |-> j + 1]) ELSE <<>>]),
      alive |-> 1..(n + 3),
      sign |-> 3, before |-> 2, after |-> n + 3, static |-> None,
      gen_info |-> WholeSubtree(n, TRUE),
      dyns |-> [some |-> FALSE, frag |-> <<>>],
      inner |-> [live |-> TRUE, some |-> TRUE, first |-> widgets[1], gen_info |-> NoGenInfo],
      built |-> f, events |-> <<>>, last |-> NoLast,
      hung |-> FALSE, panic |-> "", regens |-> 0]

\* DynRender::new for a generator (2) under a parent (1) with a static declared child
\* (3): the node holds Void and the first fragment is pending
with_child(f) ==
  [scenario |-> "depth",
   data |-> AsSeq([i \in 1..3 |-> [oid |-> i, key |-> None]]),
   parent |-> <<None, 1, 2>>,
   children |-> << <<2>>, <<3>>, <<>> >>,
   alive |-> 1..3,
   sign |-> 2, before |-> None, after |-> None, static |-> 3,
   gen_info |-> NoGenInfo,
   dyns |-> [some |-> TRUE, frag |-> f],
   inner |-> NoInner,
   built |-> <<>>, events |-> <<>>, last |-> NoLast,
   hung |-> FALSE, panic |-> "", regens |-> 0]

InitDyn ==
  /\ wt = EmptyTree
  /\ env = [list |-> <<>>, nkey |-> None]
  /\ debug = FALSE
  /\ pass = NoPass
  /\ pc = "dyn"
  /\ tm = TexIdle
  /\ tp = TextIdle
  /\ \/ \E f \in SpreadFrags : dy = spread(f)
     \/ \E f \in DepthFrags : dy = with_child(f)

FragsOf(d) == IF d.scenario = "spread" THEN SpreadFrags ELSE DepthFrags

\* a state change of the generator's expression: DynWidget::set_declare_dyns
SetPending(f) ==
  /\ pc = "dyn"
  /\ dy.panic = "" /\ ~dy.hung
  /\ ~dy.dyns.some
  /\ dy.regens < MaxRegens
  /\ f \in FragsOf(dy)
  /\ dy' = [dy EXCEPT !.dyns = [some |-> TRUE, frag |-> f], !.events = <<>>, !.last = NoLast]
  /\ UNCHANGED <<wt, env, pc, debug, pass, tm, tp>>

\* a layout of the generator node; a layout whose mount loop does not end is left
\* with dy.hung set and nothing runs after it
Layout ==
  /\ pc = "dyn"
  /\ dy.panic = "" /\ ~dy.hung
  /\ dy' = perform_layout(dy)
  /\ UNCHANGED <<wt, env, pc, debug, pass, tm, tp>>

NextDyn ==
  \/ \E f \in SpreadFrags \cup DepthFrags : SetPending(f)
  \/ Layout

SpecDyn == InitDyn /\ [][NextDyn]_vars

\* ---------------------------------------------------------------- TexturesMgr
\* lengths are device pixels; path coordinates are f32 values given in thousandths;
\* an Option<DeviceRect> is the sequence of at most one rectangle
Rect(x, y, w, h) == [x |-> x, y |-> y, w |-> w, h |-> h]

BLANK_EDGE == 2
EXPANDED_EDGE == 1
add_blank_edges(size) == [w |-> size.w + BLANK_EDGE * 2, h |-> size.h + BLANK_EDGE * 2]

\* TextureSlice; cut_blank_edge is rect.inner_rect of BLANK_EDGE on every side,
\* expand_for_paste is rect.outer_rect of EXPANDED_EDGE on every side
TextureSlice(tex_id, rect) == [tex_id |-> tex_id, rect |-> rect]
cut_blank_edge(slice) ==
  [slice EXCEPT !.rect = Rect(@.x + BLANK_EDGE, @.y + BLANK_EDGE,
                              @.w - 2 * BLANK_EDGE, @.h - 2 * BLANK_EDGE)]
expand_for_paste(slice) ==
  [slice EXCEPT !.rect = Rect(@.x - EXPANDED_EDGE, @.y - EXPANDED_EDGE,
                              @.w + 2 * EXPANDED_EDGE, @.h + 2 * EXPANDED_EDGE)]

\* Transform: a uniform scale and a translation
Transform(scale, tx, ty) == [scale |-> scale, tx |-> tx, ty |-> ty]

\* pos_100_device: the position times 100, cut to i32 (towards zero)
pos_100_device(pos) ==
  LET to_i32(v) == IF v >= 0 THEN v \div 10 ELSE -((-v) \div 10) IN
  [x |-> to_i32(pos.x), y |-> to_i32(pos.y)]

\* path_hash with pos_100_device: the hasher is fed the adjusted positions only, not
\* the kinds of the segments; two paths hash alike when these sequences are equal
path_hash(path) == [i \in 1..Len(path) |-> pos_100_device(path[i].to)]

\* path_eq with pos_100_device: the zip of the segments, kind and adjusted position
path_eq(a, b) ==
  \A i \in 1..(IF Len(a) <= Len(b) THEN Len(a) ELSE Len(b)) :
    a[i].kind = b[i].kind /\ pos_100_device(a[i].to) = pos_100_device(b[i].to)

\* Path::bounds: the box of the positions of the path, in thousandths
path_bounds(path) ==
  LET xs == {path[i].to.x : i \in 1..Len(path)}
      ys == {path[i].to.y : i \in 1..Len(path)}
      lo(S) == CHOOSE v \in S : \A u \in S : v <= u
      hi(S) == CHOOSE v \in S : \A u \in S : v >= u
  IN Rect(lo(xs), lo(ys), hi(xs) - lo(xs), hi(ys) - lo(ys))

\* path_inner_pos: the path panned to the origin of its bounds; path_hash and path_eq
\* then take pos_100_device of its positions
path_inner_pos(path) ==
  LET o == path_bounds(path) IN
  AsSeq([i \in 1..Len(path) |->
           [path[i] EXCEPT !.to = [x |-> @.x - o.x, y |-> @.y - o.y]]])

\* PathKey::from_path, PathKey::from_path_with_clip, Hash for PathKey, PartialEq for
\* PathKey
from_path(path) ==
  [kind |-> "Path", path |-> path, hash |-> path_hash(path_inner_pos(path)),
   ts |-> None, clip_rect |-> None]
from_path_with_clip(path, ts, clip_rect) ==
  [kind |-> "PathWithClip", path |-> path, hash |-> path_hash(path), ts |-> ts,
   clip_rect |-> clip_rect]
key_hash(pkey) ==
  IF pkey.kind = "Path" THEN <<pkey.hash>> ELSE <<pkey.clip_rect, pkey.hash>>
key_eq(a, b) ==
  IF a.kind # b.kind THEN FALSE
  ELSE IF a.kind = "Path" THEN path_eq(path_inner_pos(a.path), path_inner_pos(b.path))
  ELSE a.hash = b.hash /\ a.clip_rect = b.clip_rect /\ a.ts = b.ts /\ path_eq(a.path, b.path)

\* Atlas: the cached entries in order of allocation, each [key, h, used] with the
\* handle h = [tex_id, rect, attr]; tex is the texture rectangles are placed in, cursor
\* is where the next one is placed and allocs counts the calls of allocate
NewAtlas == [cache |-> <<>>, tex |-> 0, cursor |-> 0, allocs |-> 0]

\* Atlas::get for the image atlas (keys are resources, compared by identity) and for
\* the path atlas (keys are PathKeys): the index of the entry, None when there is none
rgba_get(atlas, img) ==
  LET hits == {i \in 1..Len(atlas.cache) : atlas.cache[i].key = img} IN
  IF hits = {} THEN None ELSE CHOOSE i \in hits : \A j \in hits : i <= j
alpha_get(atlas, pkey) ==
  LET hits == {i \in 1..Len(atlas.cache) :
                 key_hash(atlas.cache[i].key) = key_hash(pkey) /\ key_eq(atlas.cache[i].key, pkey)}
  IN IF hits = {} THEN None ELSE CHOOSE i \in hits : \A j \in hits : i <= j

\* Atlas::allocate: the handle of a new rectangle of the size asked for, in the next
\* texture when the current one has no room for it
allocate(atlas, pkey, attr, size) ==
  LET fits == atlas.cursor + size.w <= MaxTexSize
      tex == IF fits THEN atlas.tex ELSE atlas.tex + 1
      x == IF fits THEN atlas.cursor ELSE 0
      h == [tex_id |-> tex, rect |-> Rect(x, 0, size.w, size.h), attr |-> attr]
  IN [atlas |-> [atlas EXCEPT !.cache = Append(@, [key |-> pkey, h |-> h, used |-> TRUE]),
                              !.tex = tex, !.cursor = x + size.w, !.allocs = @ + 1],
      h |-> h]

\* Atlas::end_frame / end_frame_with: the entries no get or allocate has used in the
\* frame are deallocated
atlas_end_frame(atlas) ==
  LET kept == SelectSeq(atlas.cache, LAMBDA e : e.used) IN
  [atlas EXCEPT !.cache = AsSeq([i \in 1..Len(kept) |-> [kept[i] EXCEPT !.used = FALSE]])]

\* alpha_tex_slice / rgba_tex_slice
alpha_tex_slice(h) == TextureSlice(<<"Alpha", h.tex_id>>, h.rect)
rgba_tex_slice(h) == TextureSlice(<<"Rgba", h.tex_id>>, h.rect)

\* TexturesMgr::new
NewTexturesMgr ==
  [alpha_atlas |-> NewAtlas, rgba_atlas |-> NewAtlas, fill_task |-> <<>>,
   fill_task_buffers |-> [vertices |-> <<>>, indices |-> <<>>], need_clear_areas |-> <<>>, writes |-> <<>>, panic |-> "",
   last |-> [op |-> "none"], calls |-> 0, frames |-> 0, log |-> <<>>]

\* the images: resources 1..MaxImgs hold Rgba8 pixels of 32 * id pixels a side, the
\* resource MaxImgs + 1 holds Alpha8 pixels

\* a store_image that allocates and writes whether or not the atlas holds the image
store_image_uncached(m, img) ==
  LET a == allocate(m.rgba_atlas, img, None, [w |-> 32 * img, h |-> 32 * img])
      slice == rgba_tex_slice(a.h)
  IN [m EXCEPT !.rgba_atlas = a.atlas,
               !.writes = Append(@, [rect |-> slice.rect, img |-> img]),
               !.last = [op |-> "store_image", img |-> img, slice |-> slice]]

\* TexturesMgr::store_image; m.writes are the calls of Texture::write_data, m.last is
\* the call and what it returned
store_image(m, img) ==
  IF img > MaxImgs
  THEN [m EXCEPT !.panic = "not yet implemented", !.last = [op |-> "store_image", img |-> img]]
  ELSE LET i == rgba_get(m.rgba_atlas, img) IN
       IF i # None
       THEN [m EXCEPT !.rgba_atlas = [@ EXCEPT !.cache[i].used = TRUE],
                      !.last = [op |-> "store_image", img |-> img,
                                slice |-> rgba_tex_slice(m.rgba_atlas.cache[i].h)]]
       ELSE LET a == allocate(m.rgba_atlas, img, None, [w |-> 32 * img, h |-> 32 * img])
                slice == rgba_tex_slice(a.h)
            IN [m EXCEPT !.rgba_atlas = a.atlas,
                         !.writes = Append(@, [rect |-> slice.rect, img |-> img]),
                         !.last = [op |-> "store_image", img |-> img, slice |-> slice]]

\* what store_clipped_path returns and records for the slice it found or made
clipped_result(m, clip_view, path, ts, slice) ==
  [m EXCEPT !.last = [op |-> "store_clipped_path", clip_view |-> clip_view, path |-> path,
                      ts |-> ts, slice |-> expand_for_paste(slice),
                      matrix |-> Transform(1, clip_view.x - slice.rect.x,
                                           clip_view.y - slice.rect.y)]]

\* a store_clipped_path that allocates and queues whether or not the atlas holds the key
store_clipped_path_uncached(m, clip_view, path, ts) ==
  LET pkey == from_path_with_clip(path, ts, clip_view)
      a == allocate(m.alpha_atlas, pkey, 1, add_blank_edges(clip_view))
      slice == alpha_tex_slice(a.h)
      no_blank_slice == cut_blank_edge(slice)
      offset == [x |-> no_blank_slice.rect.x - clip_view.x, y |-> no_blank_slice.rect.y - clip_view.y]
      task == [slice |-> slice, ts |-> [ts EXCEPT !.tx = @ + offset.x, !.ty = @ + offset.y], path |-> pkey.path,
               clip_rect |-> <<slice.rect>>]
  IN clipped_result([m EXCEPT !.alpha_atlas = a.atlas, !.fill_task = Append(@, task)],
                    clip_view, path, ts, no_blank_slice)

\* TexturesMgr::store_clipped_path
store_clipped_path(m, clip_view, path, ts) ==
  LET pkey == from_path_with_clip(path, ts, clip_view)
      i == alpha_get(m.alpha_atlas, pkey)
  IN IF i # None
     THEN clipped_result([m EXCEPT !.alpha_atlas = [@ EXCEPT !.cache[i].used = TRUE]], clip_view, path, ts,
                         cut_blank_edge(alpha_tex_slice(m.alpha_atlas.cache[i].h)))
     ELSE
       LET a == allocate(m.alpha_atlas, pkey, 1, add_blank_edges(clip_view))
           slice == alpha_tex_slice(a.h)
           no_blank_slice == cut_blank_edge(slice)
           offset == [x |-> no_blank_slice.rect.x - clip_view.x,
                      y |-> no_blank_slice.rect.y - clip_view.y]
           task == [slice |-> slice, ts |-> [ts EXCEPT !.tx = @ + offset.x, !.ty = @ + offset.y], path |-> pkey.path,
                    clip_rect |-> <<slice.rect>>]
       IN clipped_result([m EXCEPT !.alpha_atlas = a.atlas, !.fill_task = Append(@, task)],
                         clip_view, path, ts, no_blank_slice)

\* get_prefer_scale for a uniform scale. f32 values are whole numbers here: the
\* quotients are exact for the sizes of the calls, and x / 0 is f32::INFINITY
INFINITY == 1000000
get_prefer_scale(ts, size, max_size) ==
  LET dis == IF size.w >= size.h THEN size.w ELSE size.h
      quot(a, b) == IF b = 0 THEN INFINITY ELSE a \div b
      max_width == max_size.w - 2 * BLANK_EDGE
      max_height == max_size.h - 2 * BLANK_EDGE
      max_scale == IF quot(max_width, size.w) <= quot(max_height, size.h)
                   THEN quot(max_width, size.w) ELSE quot(max_height, size.h)
  IN IF dis * ts.scale < 32 THEN quot(32, dis)
     ELSE IF ts.scale <= max_scale THEN ts.scale ELSE max_scale

\* TexturesMgr::store_alpha_path; of what it returns the slice is kept in m.last, the
\* matrix is not modelled. The bounds of the paths of the calls start at whole pixels.
\* The atlas holds one entry a key: allocate puts the new handle in the place of one
\* the filter has turned down.
store_alpha_path(m, path, transform) ==
  LET b == path_bounds(path)
      max_size == [w |-> MaxTexSize, h |-> MaxTexSize]
      prefer_scale == get_prefer_scale(transform, [w |-> b.w \div 1000, h |-> b.h \div 1000],
                                       max_size)
      pkey == from_path(path)
      i == alpha_get(m.alpha_atlas, pkey)
  IN IF i # None /\ m.alpha_atlas.cache[i].h.attr >= prefer_scale
     THEN [m EXCEPT !.alpha_atlas = [@ EXCEPT !.cache[i].used = TRUE],
                    !.last = [op |-> "store_alpha_path", path |-> path, ts |-> transform,
                              slice |-> expand_for_paste(cut_blank_edge(
                                          alpha_tex_slice(m.alpha_atlas.cache[i].h)))]]
     ELSE
       LET scale_bounds == Rect(b.x * prefer_scale, b.y * prefer_scale,
                                b.w * prefer_scale, b.h * prefer_scale)
           \* round_out: the floor of the origin, the ceiling of the far corner
           far(o, len) == -((-(o + len)) \div 1000)
           prefer_cache_size ==
             add_blank_edges([w |-> far(scale_bounds.x, scale_bounds.w) - scale_bounds.x \div 1000,
                              h |-> far(scale_bounds.y, scale_bounds.h) - scale_bounds.y \div 1000])
           atlas == IF i = None THEN m.alpha_atlas
                    ELSE [m.alpha_atlas EXCEPT
                            !.cache = SubSeq(@, 1, i - 1) \o SubSeq(@, i + 1, Len(@))]
           a == allocate(atlas, pkey, prefer_scale, prefer_cache_size)
           slice == alpha_tex_slice(a.h)
           mask_slice == cut_blank_edge(slice)
           ts == Transform(prefer_scale, mask_slice.rect.x - scale_bounds.x \div 1000,
                           mask_slice.rect.y - scale_bounds.y \div 1000)
       IN [m EXCEPT !.alpha_atlas = a.atlas,
                    !.fill_task = Append(@, [slice |-> slice, ts |-> ts, path |-> path,
                                             clip_rect |-> <<>>]),
                    !.last = [op |-> "store_alpha_path", path |-> path, ts |-> transform,
                              slice |-> expand_for_paste(mask_slice)]]

\* TexturesMgr::fill_tess. The tessellator is lyon's: here a path of n positions gives
\* its n positions, transformed by ts, as vertices and the fan of n - 2 triangles over
\* them as indices, counted from the vertices the buffer holds already. What it returns
\* is the range of the new indices, start..end
fill_tess(path, ts, buffer) ==
  LET start == Len(buffer.indices)
      base == Len(buffer.vertices)
      n == Len(path)
      vertices == [i \in 1..n |-> [x |-> path[i].to.x * ts.scale + 1000 * ts.tx,
                                   y |-> path[i].to.y * ts.scale + 1000 * ts.ty]]
      fan == [k \in 1..(IF n > 2 THEN 3 * (n - 2) ELSE 0) |->
                base + (IF (k - 1) % 3 = 0 THEN 0 ELSE ((k - 1) \div 3) + ((k - 1) % 3))]
  IN [buffer |-> [vertices |-> buffer.vertices \o vertices, indices |-> buffer.indices \o fan],
      rg |-> [start |-> start, end |-> start + Len(fan)]]

\* an extend_buffer that appends the indices as they are
extend_buffer_plain(dist, from) ==
  [vertices |-> dist.vertices \o from.vertices, indices |-> dist.indices \o from.indices]

\* extend_buffer
extend_buffer(dist, from) ==
  IF dist.vertices = <<>>
  THEN [vertices |-> dist.vertices \o from.vertices, indices |-> dist.indices \o from.indices]
  ELSE LET offset == Len(dist.vertices) IN
       [vertices |-> dist.vertices \o from.vertices,
        indices |-> dist.indices \o [i \in 1..Len(from.indices) |-> offset + from.indices[i]]]

\* the comparator of fill_task.sort_by: clipped tasks first, then the order of
\* TextureID; the sort is stable
sort_by(tasks) ==
  LET less(a, b) ==
        IF (a.clip_rect # <<>>) = (b.clip_rect # <<>>)
        THEN \/ a.slice.tex_id[1] = "Alpha" /\ b.slice.tex_id[1] = "Rgba"
             \/ a.slice.tex_id[1] = b.slice.tex_id[1] /\ a.slice.tex_id[2] < b.slice.tex_id[2]
        ELSE a.clip_rect # <<>>
      n == Len(tasks)
      \* the place of tasks[i]: after the tasks that are less and the equal ones before it
      at(i) == Cardinality({j \in 1..n : less(tasks[j], tasks[i])
                                         \/ (j <= i /\ ~less(tasks[i], tasks[j]))})
  IN CHOOSE sorted \in {AsSeq([p \in 1..n |-> tasks[CHOOSE i \in 1..n : place[i] = p]]) :
                          place \in {AsSeq([i \in 1..n |-> at(i)])}} : TRUE

\* the loop over the tasks first..last that tessellates each into the buffer and
\* pushes (tex_id, rg, clip_rect); acc is [indices, buffer]. The loop is taken half by
\* half, the second half starting from what the first half left
RECURSIVE tess_tasks(_, _, _, _)
tess_tasks(tasks, first, last, acc) ==
  IF first > last THEN acc
  ELSE IF first = last
  THEN LET t == fill_tess(tasks[first].path, tasks[first].ts, acc.buffer) IN
       [indices |-> Append(acc.indices, [tex_id |-> tasks[first].slice.tex_id, rg |-> t.rg,
                                         clip_rect |-> tasks[first].clip_rect]),
        buffer |-> t.buffer]
  ELSE CHOOSE r \in {tess_tasks(tasks, (first + last) \div 2 + 1, last, half) :
                      half \in {tess_tasks(tasks, first, (first + last) \div 2, acc)}} : TRUE

\* par_chunks(PAR_CHUNKS_SIZE) and the for_each over the results: chunk by chunk, the
\* ranges moved by the number of indices merged so far and the buffers merged by
\* extend_buffer; acc is [indices, buffer]
PAR_CHUNKS_SIZE == 64
RECURSIVE par_tess(_, _, _)
par_tess(tasks, first, acc) ==
  IF first > Len(tasks) THEN acc
  ELSE
    LET last == IF first + PAR_CHUNKS_SIZE - 1 <= Len(tasks)
                THEN first + PAR_CHUNKS_SIZE - 1 ELSE Len(tasks)
    IN CHOOSE r \in
         {par_tess(tasks, last + 1, next) :
            next \in {LET offset == Len(acc.buffer.indices) IN
                      [indices |-> acc.indices \o
                                     [k \in 1..Len(c.indices) |->
                                        [c.indices[k] EXCEPT !.rg = [start |-> @.start + offset,
                                                                     end |-> @.end + offset]]],
                       buffer |-> extend_buffer(acc.buffer, c.buffer)] :
                      c \in {tess_tasks(tasks, first, last,
                                        [indices |-> <<>>,
                                         buffer |-> [vertices |-> <<>>, indices |-> <<>>]])}}} : TRUE

\* the two loops over draw_indices: the calls of draw_alpha_triangles_with_scissor and
\* of draw_alpha_triangles in the order they are made, each [tex_id, rg, clip_rect].
\* The first loop ends at the first entry without a clip rectangle; the second loop
\* goes from an entry to the next one of another texture (position), which are the
\* entries whose texture is not that of the entry before them, and its unreachable!()
\* ends it with a call that names no texture
draw_loops(draw_indices, len) ==
  LET n == Len(draw_indices)
      least(S) == CHOOSE k \in S : \A j \in S : k <= j
      idx == least({k \in 1..n : draw_indices[k].clip_rect = <<>>} \cup {n + 1})
      starts == {k \in idx..n : k = idx \/ draw_indices[k].tex_id # draw_indices[k - 1].tex_id}
      stop == least({k \in starts : draw_indices[k].clip_rect # <<>>} \cup {n + 1})
      drawn == {k \in starts : k < stop}
      next(k) == least({j \in starts : j > k} \cup {n + 1})
      nth(i) == CHOOSE k \in drawn : Cardinality({j \in drawn : j < k}) = i - 1
  IN SubSeq(draw_indices, 1, idx - 1)
       \o [i \in 1..Cardinality(drawn) |->
             [tex_id |-> draw_indices[nth(i)].tex_id,
              rg |-> [start |-> draw_indices[nth(i)].rg.start,
                      end |-> IF next(nth(i)) = n + 1 THEN len
                              ELSE draw_indices[next(nth(i))].rg.start],
              clip_rect |-> <<>>]]
       \o (IF stop = n + 1 THEN <<>>
           ELSE <<[tex_id |-> <<"unreachable", 0>>, rg |-> [start |-> 0, end |-> 0],
                   clip_rect |-> <<>>]>>)

\* TexturesMgr::draw_alpha_textures; m.last holds the queue the call found, the areas
\* it cleared, the queue as sorted, draw_indices, the buffers given to
\* load_alpha_vertices and the draw calls
draw_alpha_textures(m) ==
  IF m.fill_task = <<>>
  THEN [m EXCEPT !.last = [op |-> "draw_alpha_textures", queued |-> <<>>]]
  ELSE
    LET tasks == sort_by(m.fill_task)
        start == [indices |-> <<>>, buffer |-> m.fill_task_buffers]
        t == IF Len(tasks) < PAR_CHUNKS_SIZE
             THEN tess_tasks(tasks, 1, Len(tasks), start)
             ELSE par_tess(tasks, 1, start)
    IN [m EXCEPT !.need_clear_areas = <<>>,
                 !.fill_task = <<>>,
                 !.fill_task_buffers = [vertices |-> <<>>, indices |-> <<>>],
                 !.last = [op |-> "draw_alpha_textures", queued |-> m.fill_task,
                           cleared |-> m.need_clear_areas, sorted |-> tasks,
                           draw_indices |-> t.indices, loaded |-> t.buffer,
                           calls |-> draw_loops(t.indices, Len(t.buffer.indices))]]

\* TexturesMgr::end_frame
end_frame(m) ==
  LET unused == SelectSeq(m.alpha_atlas.cache, LAMBDA e : ~e.used) IN
  [m EXCEPT !.need_clear_areas = @ \o AsSeq([i \in 1..Len(unused) |-> unused[i].h.rect]),
            !.alpha_atlas = atlas_end_frame(@),
            !.rgba_atlas = atlas_end_frame(@),
            !.last = [op |-> "end_frame"]]

\* ---------------------------------------------------------- SpecTex: actions
\* a path is the sequence of its segments, each a kind and the point it leads to.
\* The paths of the calls: a line from (20, 20) to (320, 20); the same line moved by
\* 0.004; the same positions with another first segment
Paths ==
  LET Seg(kind, x, y) == [kind |-> kind, to |-> [x |-> x, y |-> y]] IN
  {<<Seg("MoveTo", 20000, 20000), Seg("LineTo", 320000, 20000)>>,
   <<Seg("MoveTo", 20004, 20000), Seg("LineTo", 320000, 20000)>>,
   <<Seg("LineTo", 20000, 20000), Seg("LineTo", 320000, 20000)>>}

InitTex ==
  /\ wt = EmptyTree
  /\ env = [list |-> <<>>, nkey |-> None]
  /\ debug = FALSE
  /\ pass = NoPass
  /\ dy = DynIdle
  /\ pc = "tex"
  /\ tm = NewTexturesMgr
  /\ tp = TextIdle

\* the record of a call that returned: what it was given, what it returned, the frame
\* it ran in and what it did to the atlases, the textures and the fill-task queue
Called(m, r, args, ret) ==
  [op |-> r.last.op, args |-> args, ret |-> ret, frame |-> m.frames,
   allocs |-> (r.rgba_atlas.allocs + r.alpha_atlas.allocs)
                - (m.rgba_atlas.allocs + m.alpha_atlas.allocs),
   writes |-> Len(r.writes) - Len(m.writes),
   tasks |-> Len(r.fill_task) - Len(m.fill_task)]

StoreImage(img) ==
  /\ pc = "tex" /\ tm.panic = "" /\ tm.calls < MaxCalls
  /\ \E r \in {store_image(tm, img)} :
       tm' = [r EXCEPT !.calls = @ + 1,
                       !.log = IF r.panic # "" THEN @
                               ELSE Append(@, Called(tm, r, img, r.last.slice))]
  /\ UNCHANGED <<wt, env, pc, debug, pass, dy, tp>>

StoreClippedPath(clip_view, path, ts) ==
  /\ pc \in {"tex", "draw"} /\ tm.panic = "" /\ tm.calls < MaxCalls
  /\ \E r \in {store_clipped_path(tm, clip_view, path, ts)} :
       tm' = [r EXCEPT !.calls = @ + 1,
                       !.log = Append(@, Called(tm, r, <<clip_view, path, ts>>,
                                                <<r.last.slice, r.last.matrix>>))]
  /\ UNCHANGED <<wt, env, pc, debug, pass, dy, tp>>

\* the paths i..n a painter stores one after the other: the i-th is a triangle with
\* legs of 32 + i pixels. The calls are taken half by half
RECURSIVE store_alpha_paths(_, _, _, _)
store_alpha_paths(m, i, n, ts) ==
  IF i > n THEN m
  ELSE IF i = n
  THEN LET len == 1000 * (32 + i) IN
       store_alpha_path(m, <<[kind |-> "MoveTo", to |-> [x |-> 10000, y |-> 10000]],
                             [kind |-> "LineTo", to |-> [x |-> 10000 + len, y |-> 10000]],
                             [kind |-> "LineTo", to |-> [x |-> 10000, y |-> 10000 + len]]>>, ts)
  ELSE CHOOSE r \in {store_alpha_paths(half, (i + n) \div 2 + 1, n, ts) :
                      half \in {store_alpha_paths(m, i, (i + n) \div 2, ts)}} : TRUE

StoreAlphaPaths(n, ts) ==
  /\ pc = "draw" /\ tm.panic = "" /\ tm.calls < MaxCalls
  /\ \E r \in {store_alpha_paths(tm, 1, n, ts)} :
       tm' = [r EXCEPT !.calls = @ + 1,
                       !.last = [op |-> "store_alpha_paths", n |-> n, ts |-> ts,
                                 slice |-> r.last.slice]]
  /\ UNCHANGED <<wt, env, pc, debug, pass, dy, tp>>

DrawAlphaTextures ==
  /\ pc = "draw" /\ tm.panic = "" /\ tm.calls < MaxCalls
  /\ \E r \in {draw_alpha_textures(tm)} : tm' = [r EXCEPT !.calls = @ + 1]
  /\ UNCHANGED <<wt, env, pc, debug, pass, dy, tp>>

EndFrame ==
  /\ pc \in {"tex", "draw"} /\ tm.panic = "" /\ tm.frames < MaxFrames
  /\ tm' = [end_frame(tm) EXCEPT !.frames = @ + 1]
  /\ UNCHANGED <<wt, env, pc, debug, pass, dy, tp>>

NextTex ==
  \/ \E img \in 1..(MaxImgs + 1) : StoreImage(img)
  \/ \E clip_view \in {Rect(10, 10, 100, 100), Rect(0, 0, 4, 4)}, path \in Paths,
        ts \in {Transform(2, -10, -10), Transform(1, 0, 0)} :
       StoreClippedPath(clip_view, path, ts)
  \/ EndFrame

SpecTex == InitTex /\ [][NextTex]_vars

\* the frames of a painter that stores paths and draws them
InitDraw ==
  /\ wt = EmptyTree
  /\ env = [list |-> <<>>, nkey |-> None]
  /\ debug = FALSE
  /\ pass = NoPass
  /\ dy = DynIdle
  /\ pc = "draw"
  /\ tm = NewTexturesMgr
  /\ tp = TextIdle

NextDraw ==
  \/ \E clip_view \in {Rect(10, 10, 100, 100), Rect(0, 0, 4, 4)}, path \in Paths :
       path[1].kind = "LineTo" /\ StoreClippedPath(clip_view, path, Transform(1, 0, 0))
  \/ \E n \in {1, PAR_CHUNKS_SIZE - 1, PAR_CHUNKS_SIZE + 1},
        ts \in {Transform(2, -10, -10), Transform(1, 0, 0)} :
       (n = 1 \/ ts.scale = 1) /\ StoreAlphaPaths(n, ts)
  \/ DrawAlphaTextures
  \/ EndFrame

SpecDraw == InitDraw /\ [][NextDraw]_vars

\* ------------------------------------------------------------------ layouter
\* an Option<Em> is the sequence of at most one length; alignments are "None", or the
\* name of the variant
\* PlaceLineDirection::is_horizontal, TypographyCfg::should_rev_place_glyph,
\* TypographyCfg::is_rev_place_line
is_horizontal(line_dir) == line_dir \in {"LeftToRight", "RightToLeft"}
should_rev_place_glyph(cfg) == cfg.h_align = "Right" /\ is_horizontal(cfg.line_dir)
is_rev_place_line(cfg) ==
  cfg.line_dir = "RightToLeft" \/ (cfg.v_align = "Bottom" /\ ~is_horizontal(cfg.line_dir))

\* TypographyMan::new; log holds a record for every call of advance_glyph made by
\* place_glyphs, runs counts the runs consumed
typography_new(inputs, cfg) ==
  [cfg |-> cfg, inputs |-> inputs,
   cursor |-> [x |-> IF cfg.h_align = "Right" \/ cfg.line_dir = "RightToLeft"
                     THEN cfg.bounds.x + cfg.bounds.w ELSE 0,
               y |-> IF cfg.v_align = "Bottom" THEN cfg.bounds.y + cfg.bounds.h ELSE 0],
   visual_lines |-> <<>>, rect |-> <<>>, panic |-> "", log |-> <<>>, runs |-> 0,
   done |-> FALSE]

\* InlineCursor::advance_glyph of a cursor [kind, pos, letter_space, bounds]: kind names
\* the cursor of a direction, letter_space is not 0 when a LetterSpaceCursor is around
\* it and bounds holds the range when a BoundsCursor is around that. It gives the
\* cursor and the glyph as they are afterwards and over, the value returned
advance_glyph(cur, g) ==
  LET at == IF cur.kind = "RightToLeft"
            THEN [g EXCEPT !.position = [x |-> cur.pos.x - g.advance.w, y |-> @.y + cur.pos.y]]
            ELSE [g EXCEPT !.position = [x |-> @.x + cur.pos.x, y |-> @.y + cur.pos.y]]
      pos == CASE cur.kind = "LeftToRight" ->
                    [cur.pos EXCEPT !.x = at.position.x + at.advance.w]
                [] cur.kind = "RightToLeft" ->
                    [cur.pos EXCEPT !.x = @ - (g.position.x + g.advance.w)]
                [] cur.kind = "TopToBottom" ->
                    [cur.pos EXCEPT !.y = at.position.y + at.advance.h]
      \* LetterSpaceCursor: advance(letter_space) of the inner cursor, which returns false
      spaced == IF cur.letter_space # 0 /\ g.letter
                THEN IF cur.kind = "TopToBottom"
                     THEN [pos EXCEPT !.y = @ + cur.letter_space]
                     ELSE [pos EXCEPT !.x = @ + cur.letter_space]
                ELSE pos
      position == IF cur.kind = "TopToBottom" THEN spaced.y ELSE spaced.x
      \* BoundsCursor: self.bounds.contains(&self.position())
      over == IF cur.bounds = <<>> THEN FALSE
              ELSE cur.bounds[1].start <= position /\ position < cur.bounds[1].end
  IN [cur |-> [cur EXCEPT !.pos = spaced], g |-> at, over |-> over]

\* TypographyMan::push_glyph: unwrap of the last line panics when there is no line
push_glyph(t, g) ==
  IF t.visual_lines = <<>> THEN [t EXCEPT !.panic = "called Option::unwrap() on a None value"]
  ELSE IF should_rev_place_glyph(t.cfg)
  THEN [t EXCEPT !.visual_lines[Len(t.visual_lines)].glyphs = <<g>> \o @]
  ELSE [t EXCEPT !.visual_lines[Len(t.visual_lines)].glyphs = Append(@, g)]

\* TGlyph::new
TGlyph_new(font_size, g) ==
  [advance |-> [w |-> g.x_advance * font_size, h |-> g.y_advance * font_size],
   position |-> [x |-> g.x_offset * font_size, y |-> g.y_offset * font_size],
   letter |-> g.letter]

\* TypographyMan::place_glyphs from the i-th of the glyphs on: place_glyphs is the head
\* of the for loop with the call of advance_glyph, advance_and_push the call of
\* push_glyph with what advance_glyph gave (a), after_push the break and the
\* assignment of self.cursor
RECURSIVE place_glyphs(_, _, _, _, _)
after_push(pushed, a, font_size, glyphs, i) ==
  IF pushed.panic # "" THEN pushed
  ELSE IF a.over THEN [pushed EXCEPT !.cursor = a.cur.pos]
  ELSE place_glyphs(pushed, a.cur, font_size, glyphs, i + 1)

advance_and_push(t, cur, font_size, glyphs, i, a) ==
  LET position == IF cur.kind = "TopToBottom" THEN a.cur.pos.y ELSE a.cur.pos.x IN
  after_push(push_glyph([t EXCEPT !.log = Append(@,
                           [run |-> t.runs, i |-> i, n |-> Len(glyphs),
                            bounded |-> cur.bounds # <<>>,
                            inside |-> IF cur.bounds = <<>> THEN TRUE
                                       ELSE cur.bounds[1].start <= position
                                              /\ position < cur.bounds[1].end,
                            over |-> a.over, lines |-> Len(t.visual_lines)])],
                        a.g),
             a, font_size, glyphs, i)

place_glyphs(t, cur, font_size, glyphs, i) ==
  IF i > Len(glyphs) THEN [t EXCEPT !.cursor = cur.pos]
  ELSE advance_and_push(t, cur, font_size, glyphs, i,
                        advance_glyph(cur, TGlyph_new(font_size, glyphs[i])))

\* consume_run_with_letter_space_cursor, consume_run_with_bounds_cursor and consume_run
\* for a run and the cursor of kind that starts at self.cursor
consume_run(t, run, kind) ==
  LET ls == IF run.letter_space # <<>> THEN run.letter_space[1]
            ELSE IF t.cfg.letter_space # <<>> THEN t.cfg.letter_space[1] ELSE 0
      b == t.cfg.bounds
      bounds == IF t.cfg.h_align # "Center" /\ t.cfg.v_align # "Center"
                THEN IF is_horizontal(t.cfg.line_dir)
                     THEN <<[start |-> b.x, end |-> b.x + b.w]>>
                     ELSE <<[start |-> b.y, end |-> b.y + b.h]>>
                ELSE <<>>
      cur == [kind |-> kind, pos |-> t.cursor, letter_space |-> ls, bounds |-> bounds]
      n == Len(run.glyphs)
      glyphs == IF should_rev_place_glyph(t.cfg)
                THEN AsSeq([i \in 1..n |-> run.glyphs[n + 1 - i]]) ELSE run.glyphs
  IN place_glyphs([t EXCEPT !.runs = @ + 1], cur, run.font_size, glyphs, 1)

\* runs.for_each(...) over the runs in the order given
RECURSIVE consume_runs(_, _, _)
consume_runs(t, runs, kind) ==
  IF runs = <<>> \/ t.panic # "" THEN t
  ELSE consume_runs(consume_run(t, Head(runs), kind), Tail(runs), kind)

\* TypographyMan::advance_to_new_line
advance_to_new_line(t, offset) ==
  LET cfg == t.cfg
      moved == CASE cfg.line_dir = "LeftToRight" -> [t.cursor EXCEPT !.x = @ + offset]
                 [] cfg.line_dir = "RightToLeft" -> [t.cursor EXCEPT !.x = @ - offset]
                 [] cfg.line_dir = "TopToBottom" -> [t.cursor EXCEPT !.y = @ + offset]
      reset == IF is_horizontal(cfg.line_dir)
               THEN [moved EXCEPT !.y = IF cfg.v_align = "Bottom"
                                        THEN cfg.bounds.y + cfg.bounds.h ELSE 0]
               ELSE [moved EXCEPT !.x = IF cfg.h_align = "Right"
                                        THEN cfg.bounds.x + cfg.bounds.w ELSE 0]
  IN [t EXCEPT !.cursor = reset,
               !.visual_lines = Append(@, [line_rect |-> Rect(0, 0, 0, 0), glyphs |-> <<>>])]

\* TypographyMan::consume_paragraph, with line_height_with_glyph: the line height of
\* the cfg, else the line gap of the face of the glyph, else 1
consume_paragraph(t, p) ==
  LET n == Len(p.runs)
      first == IF n > 0 /\ p.runs[1].glyphs # <<>> THEN <<p.runs[1].glyphs[1]>> ELSE <<>>
      line_height == IF t.cfg.line_height # <<>> THEN t.cfg.line_height[1]
                     ELSE IF first # <<>> /\ first[1].gap # <<>> THEN first[1].gap[1]
                     ELSE 1
      lined == IF (t.visual_lines # <<>> \/ is_rev_place_line(t.cfg)) /\ n > 0
               THEN advance_to_new_line(t, line_height * p.runs[1].font_size)
               ELSE t
  IN consume_runs(lined,
                  IF should_rev_place_glyph(t.cfg)
                  THEN AsSeq([i \in 1..n |-> p.runs[n + 1 - i]]) ELSE p.runs,
                  IF should_rev_place_glyph(t.cfg) THEN "RightToLeft"
                  ELSE IF is_horizontal(t.cfg.line_dir) THEN "LeftToRight"
                  ELSE "TopToBottom")

\* the while loop of typography_all: typography_loop is next_input_paragraph and the
\* call of consume_paragraph, break_or_loop the test of the cursor after it (c is the
\* TypographyMan consume_paragraph left)
RECURSIVE typography_loop(_)
break_or_loop(c) ==
  IF /\ c.panic = ""
     /\ c.cfg.bounds.x <= c.cursor.x /\ c.cursor.x < c.cfg.bounds.x + c.cfg.bounds.w
     /\ c.cfg.bounds.y <= c.cursor.y /\ c.cursor.y < c.cfg.bounds.y + c.cfg.bounds.h
  THEN typography_loop(c) ELSE c

typography_loop(t) ==
  IF t.inputs = <<>> \/ t.panic # "" THEN t
  ELSE IF is_rev_place_line(t.cfg)
  THEN break_or_loop(consume_paragraph([t EXCEPT !.inputs = SubSeq(@, 1, Len(@) - 1)],
                                       t.inputs[Len(t.inputs)]))
  ELSE break_or_loop(consume_paragraph([t EXCEPT !.inputs = Tail(@)], Head(t.inputs)))

\* what typography_all does after the loop, c being the TypographyMan the loop left.
\* No line_rect is ever set, so the union of the lines is the zero rectangle; the
\* rectangles are kept with their origin doubled, which makes the halves of the
\* centring whole
union_and_center(c) ==
  LET b == c.cfg.bounds
      center(r) ==
        [r EXCEPT !.y = IF c.cfg.v_align = "Center" THEN @ + (2 * b.y + b.h) - (@ + r.h) ELSE @,
                  !.x = IF c.cfg.h_align = "Center" THEN @ + (2 * b.x + b.w) - (@ + r.w) ELSE @]
  IN IF c.panic # "" THEN [c EXCEPT !.done = TRUE]
     ELSE [c EXCEPT !.visual_lines = AsSeq([i \in 1..Len(@) |->
                                              [@[i] EXCEPT !.line_rect = center(@)]]),
                    !.rect = <<center(Rect(0, 0, 0, 0))>>,
                    !.done = TRUE]

\* TypographyMan::typography_all
typography_all(t) == union_and_center(typography_loop(t))

\* ---------------------------------------------------------- SpecText: actions
\* the glyphs of the shaper: no offset, the same advance on both axes, a char that
\* takes letter spacing and a face the font db does not know
TextCfgs ==
  [line_height : {<<>>, <<2>>}, letter_space : {<<>>, <<1>>},
   h_align : {"None", "Left", "Center", "Right"},
   v_align : {"None", "Top", "Center", "Bottom"},
   bounds : {Rect(0, 0, BoundsSide, BoundsSide)},
   line_dir : {"LeftToRight", "RightToLeft", "TopToBottom"}]
TextInputs ==
  LET glyphs == {[x_advance |-> a, y_advance |-> a, x_offset |-> 0, y_offset |-> 0,
                  letter |-> TRUE, gap |-> <<>>] : a \in 1..MaxAdvance}
      runs == {[glyphs |-> q, font_size |-> 1, letter_space |-> <<>>] :
                 q \in SeqsUpTo(glyphs, MaxGlyphs)}
      paragraphs == {[runs |-> q] : q \in SeqsUpTo(runs, 1)}
  IN SeqsUpTo(paragraphs, MaxParas) \ {<<>>}

InitText ==
  /\ wt = EmptyTree
  /\ env = [list |-> <<>>, nkey |-> None]
  /\ debug = FALSE
  /\ pass = NoPass
  /\ dy = DynIdle
  /\ pc = "text"
  /\ tm = TexIdle
  /\ \E inputs \in TextInputs, cfg \in TextCfgs : tp = typography_new(inputs, cfg)

TypographyAll ==
  /\ pc = "text" /\ ~tp.done
  /\ tp' = typography_all(tp)
  /\ UNCHANGED <<wt, env, pc, debug, pass, dy, tm>>

SpecText == InitText /\ [][TypographyAll]_vars

\* ------------------------------------------------------- SpecTree: claims
PassDone == pc = "idle" /\ pass.n > 0 /\ wt.panic = ""

RenderIdOf(s, id) == IF id \in DOMAIN s.widget_to_render THEN s.widget_to_render[id] ELSE None

\* proper ancestors of id in the tree as it was when repair() was entered
RECURSIVE StartAncestors(_)
StartAncestors(id) ==
  IF pass.parent[id] = None THEN {} ELSE {pass.parent[id]} \cup StartAncestors(pass.parent[id])

\* C1: after a repair() pass in which keys are unique among siblings, every old child
\* of a rebuilt node whose key is the key of a newly built child is still in the tree
\* under its WidgetId and maps to the RenderId it mapped to before
C1_ReusedChildKeepsIds ==
  (PassDone /\ ~pass.dup_seen) =>
    \A c \in pass.reuse_claim :
      c[1] \in Attached(wt) /\ RenderIdOf(wt, c[1]) = c[2]

\* C8: the id pop_need_build_widget returns has no need_builds id among its proper
\* ancestors
C8_PoppedIsTopmost == wt.popped.id # None => wt.popped.dirty_above = {}

\* C9: a node that was in need_builds together with one of its ancestors when repair()
\* was entered is built at most once in the pass
C9_BuiltOncePerMark ==
  pass.n > 0 =>
    \A id \in pass.need :
      StartAncestors(id) \cap pass.need # {} => wt.build_cnt[id] <= 1

\* C10: after a node is reconciled against its freshly produced child list, its
\* children are the new children, one to one and in the same order
C10_ChildrenAreNewList ==
  \A i \in 1..Len(wt.recon) : wt.recon[i].after = wt.recon[i].new

\* the reconciliations of the last iteration that went through repair_children_by_key
ByKey(r) == Len(r.new) # 1

\* an old child of a reconciliation is gone: dropped, without widget_to_render entry,
\* in neither dirty set, and the render object it mapped to removed
Gone(id, rid) ==
  /\ id \in wt.dropped
  /\ id \notin DOMAIN wt.widget_to_render
  /\ id \notin wt.changed_widgets \cup wt.need_builds
  /\ rid # None => rid \notin wt.r_alive

\* C11: after a multi-child reconciliation every old keyed child that is no longer a
\* child of the node is dropped: it left widget_to_render and both dirty sets and its
\* render object is removed, also when two old siblings carried the same key
C11_UnusedKeyedChildDropped ==
  wt.panic = "" =>
    \A i \in 1..Len(wt.recon) :
      ByKey(wt.recon[i]) =>
        \A j \in 1..Len(wt.recon[i].old) :
          (wt.recon[i].old_keys[j] # None /\ wt.recon[i].old[j] \notin Attached(wt))
            => Gone(wt.recon[i].old[j], wt.recon[i].old_rids[j])

\* C12: a keyless old child of a reconciled node is never reused, on the single-child
\* path and on the multi-child path alike: it is dropped and is no child of the node
\* any more, and every keyless child the node has afterwards is a freshly inflated one
C12_KeylessNeverMatches ==
  wt.panic = "" =>
    \A i \in 1..Len(wt.recon) :
      /\ \A j \in 1..Len(wt.recon[i].old) :
           wt.recon[i].old_keys[j] = None =>
             /\ wt.recon[i].old[j] \notin Range(wt.children[wt.recon[i].node])
             /\ Gone(wt.recon[i].old[j], wt.recon[i].old_rids[j])
      /\ \A c \in Range(wt.children[wt.recon[i].node]) :
           wt.arena[c].key = None =>
             /\ c \notin Range(wt.recon[i].old)
             /\ is_render(wt.arena[c]) => c \in DOMAIN wt.widget_to_render

\* the render objects that belong to the widgets ids
RenderObjectsOf(ids) == {rid \in wt.r_alive : wt.r_owner[rid] \in ids}

\* C13: every WidgetId of a dropped subtree is in neither dirty set and has no
\* widget_to_render entry, no render object of the subtree is left in the render
\* tree, and a dropped node is not the root of the widget tree
C13_DropCleansSubtree ==
  wt.panic = "" =>
    /\ wt.dropped \cap (wt.changed_widgets \cup wt.need_builds) = {}
    /\ wt.dropped \cap DOMAIN wt.widget_to_render = {}
    /\ RenderObjectsOf(wt.dropped) = {}
    /\ wt.root \notin wt.dropped

\* repair() has returned: nothing is left in either dirty set
Returned == pc = "idle" /\ wt.panic = "" /\ wt.need_builds = {} /\ wt.changed_widgets = {}

\* C15: a repair() that is entered is not aborted on its way, and when it is over
\* need_builds (the ids marked by builds during the pass included) and changed_widgets
\* are empty
C15_RepairDrainsDirtySets ==
  /\ pc = "repair" => wt.panic = ""
  /\ (pc = "idle" /\ pass.n > 0) => Returned

\* the structure of the two trees and the table between them
Structure(s) ==
  <<s.arena, s.parent, s.children, s.root, s.widget_to_render,
    s.r_owner, s.r_parent, s.r_children, s.r_alive, s.r_root>>

\* C16: a repair() that is entered with need_builds empty changes neither the widget
\* tree, nor widget_to_render, nor the structure of the render tree, and builds no
\* widget; so does a second repair() right after a first
C16_RepairWithoutNeedBuildsIsNoOp ==
  [][(\/ pc = "idle" /\ pc' = "repair" /\ wt.need_builds = {}
      \/ pc = "repair" /\ pass.need = {})
       => /\ Structure(wt') = Structure(wt)
          /\ wt'.dropped = {} /\ wt'.recon = <<>>
          /\ \A i \in 1..Len(wt'.build_cnt) : wt'.build_cnt[i] = 0]_vars

\* the second repair() right after a first is over
C16_Witness ==
  /\ pc = "idle" /\ wt.panic = "" /\ pass.need = {}
  /\ pass.n > MaxPasses

\* C17: mark_changed(id) puts id into changed_widgets when the widget at id is
\* render-capable and into need_builds when it is not, and changes nothing else of
\* the tree
C17_MarkChangedOnlyMarks ==
  [][(pc = "idle" /\ pc' = "idle" /\ wt' # wt) =>
       \E id \in Attached(wt) :
         /\ wt'.changed_widgets =
              IF is_render(wt.arena[id]) THEN wt.changed_widgets \cup {id} ELSE wt.changed_widgets
         /\ wt'.need_builds =
              IF is_render(wt.arena[id]) THEN wt.need_builds ELSE wt.need_builds \cup {id}
         /\ wt' = [wt EXCEPT !.changed_widgets = wt'.changed_widgets,
                              !.need_builds = wt'.need_builds]]_vars

\* a render-capable widget and a Combination widget were marked
C17_Witness ==
  /\ pc = "idle" /\ pass.n = 0
  /\ \E id \in wt.changed_widgets : is_render(wt.arena[id])
  /\ \E id \in wt.need_builds : is_combination(wt.arena[id])

\* C18: the flush of a repair() happens with need_builds empty; every id that is in
\* changed_widgets then has a render object, which after the flush holds the data the
\* node holds after all rebuilds; no other render object's data changes, and
\* changed_widgets is empty afterwards
C18_FlushAfterRebuilds ==
  [][(pc = "repair" /\ pc' = "idle") =>
       /\ wt.need_builds = {}
       /\ \A id \in wt.changed_widgets :
            /\ id \in DOMAIN wt.widget_to_render
            /\ wt'.r_data[wt.widget_to_render[id]] = wt.arena[id]
       /\ \A r \in 1..Len(wt.r_data) :
            (\A id \in wt.changed_widgets : RenderIdOf(wt, id) # r) => wt'.r_data[r] = wt.r_data[r]
       /\ wt'.changed_widgets = {}]_vars

\* the nearest render-capable proper ancestor of id, None when there is none
NearestRenderAncestor(s, id) ==
  LET anc == SelectSeq(Tail(ancestors(s, id)), LAMBDA a : is_render(s.arena[a])) IN
  IF anc = <<>> THEN None ELSE anc[1]

\* C19: the render object of every inflated widget of the tree is a child of the render
\* object of the widget's nearest render-capable proper ancestor, and it is the root of
\* the render tree only when the widget has no such ancestor
C19_RenderObjectUnderNearestAncestor ==
  wt.panic = "" =>
    \A id \in Attached(wt) \cap DOMAIN wt.widget_to_render :
      IF NearestRenderAncestor(wt, id) = None
      THEN wt.r_root = wt.widget_to_render[id]
      ELSE /\ wt.r_root # wt.widget_to_render[id]
           /\ wt.r_parent[wt.widget_to_render[id]] =
                RenderIdOf(wt, NearestRenderAncestor(wt, id))

\* every leaf among ids is render-capable and every render-capable id has a
\* widget_to_render entry
Inflated(s, ids) ==
  \A id \in ids :
    /\ s.children[id] = <<>> => is_render(s.arena[id])
    /\ is_render(s.arena[id]) => id \in DOMAIN s.widget_to_render

\* C20: after the inflate of Window::new the whole tree, and after every iteration of
\* repair() every node that the iteration's inflate calls created and that is in the
\* tree, is inflated down to render-capable leaves, each render-capable node with its
\* widget_to_render entry
C20_InflatedDownToRenderLeaves ==
  /\ (pass.n = 0 /\ pc = "idle") => Inflated(wt, Attached(wt))
  /\ [][(pc = "repair" /\ pc' = "repair" /\ wt'.panic = "") =>
          Inflated(wt', Attached(wt') \ DOMAIN wt.arena)]_vars

\* an iteration of repair() inflated a Combination widget with its subtree
C20_Witness ==
  /\ pc = "repair" /\ wt.panic = ""
  /\ \E id \in Attached(wt) \ DOMAIN pass.arena :
       is_combination(wt.arena[id]) /\ Cardinality(descendants(wt, id)) >= 3

\* the step is an iteration of repair() that popped an id whose widget is no Combination
PoppedNotCombination ==
  /\ pc = "repair" /\ pc' = "repair" /\ wt' # wt
  /\ wt'.popped.id # None /\ ~is_combination(wt.arena[wt'.popped.id])

\* C27: an iteration of repair() that pops an id whose widget is not a Combination ends
\* in the assertion failure, and a drop of a node without a mapped render object panics
\* with every side table, dirty set and tree link as it was before the call.
C27_InvariantViolationsAreFatal ==
  [][/\ PoppedNotCombination => wt'.panic = "rebuild widget must be combination widget."
     /\ (pc = "dropped" /\ wt'.panic # "") => wt' = [wt EXCEPT !.panic = wt'.panic]]_vars

\* the render objects of the render tree: what is reachable from its root
RenderTreeObjects(s) == IF s.r_root = None THEN {} ELSE r_descendants(s, s.r_root)

\* the render-capable widgets reachable from the widget root
RenderWidgets(s) == {id \in Attached(s) : is_render(s.arena[id])}

\* C31: after set_root and after every repair() the keys of widget_to_render are
\* exactly the render-capable widgets reachable from the widget root, each mapped to a
\* render object of its own that is in the render tree, and every render object of the
\* render tree belongs to a widget that is still attached
C31_TreesSynchronized ==
  (pc = "idle" /\ wt.panic = "") =>
    /\ DOMAIN wt.widget_to_render = RenderWidgets(wt)
    /\ \A a, b \in DOMAIN wt.widget_to_render :
         a # b => wt.widget_to_render[a] # wt.widget_to_render[b]
    /\ \A a \in DOMAIN wt.widget_to_render :
         wt.widget_to_render[a] \in wt.r_alive \cap RenderTreeObjects(wt)
    /\ \A rid \in RenderTreeObjects(wt) : wt.r_owner[rid] \in Attached(wt)

\* C32: in every reachable state each id in changed_widgets is a render-capable widget
\* with a widget_to_render entry, and each id in need_builds is a Combination widget
\* attached to the tree, also after a same-key replacement that changes the widget's
\* kind
C32_DirtySetsWellFormed ==
  wt.panic = "" =>
    /\ \A id \in wt.changed_widgets :
         is_render(wt.arena[id]) /\ id \in DOMAIN wt.widget_to_render
    /\ \A id \in wt.need_builds :
         is_combination(wt.arena[id]) /\ id \in Attached(wt)

\* the render-capable widgets next below the widgets ids, in tree order, Combination
\* nodes flattened
RECURSIVE RenderBelow(_, _)
RenderBelow(s, ids) ==
  IF ids = <<>> THEN <<>>
  ELSE (IF is_render(s.arena[ids[1]]) THEN <<ids[1]>> ELSE RenderBelow(s, s.children[ids[1]]))
         \o RenderBelow(s, Tail(ids))

\* the render objects under the render object of id are those of the render-capable
\* widgets below id, in the same order
SameOrder(s, id) ==
  LET below == RenderBelow(s, s.children[id]) IN
  s.r_children[s.widget_to_render[id]] = [i \in 1..Len(below) |-> RenderIdOf(s, below[i])]

\* C33: after every repair() the order of the render objects under each render object
\* equals the order of the corresponding render-capable widgets in the widget tree,
\* also when keyed children are reordered or a new child is inflated between reused
\* children
C33_RenderOrderFollowsWidgetOrder ==
  PassDone =>
    \A id \in RenderWidgets(wt) \cap DOMAIN wt.widget_to_render : SameOrder(wt, id)

\* C35: after a subtree is dropped a get on any WidgetId of it returns nothing, and
\* the arena holds no more nodes than the widget tree has
C35_DroppedNodesLeaveArena ==
  wt.panic = "" =>
    /\ \A id \in wt.dropped : get(wt, id) = <<>>
    /\ (pc = "idle" /\ wt.root # None) => Len(wt.arena) = Cardinality(Attached(wt))

\* -------------------------------------------------------- SpecDyn: claims
CountEv(e, o) == Cardinality({i \in 1..Len(dy.events) : dy.events[i].ev = e /\ dy.events[i].oid = o})
CountKind(e) == Cardinality({i \in 1..Len(dy.events) : dy.events[i].ev = e})
Oids == {dy.data[i].oid : i \in 1..Len(dy.data)}

\* the layout that led to this state regenerated a WholeSubtree / DynDepth generator
WholeRegen == pc = "dyn" /\ dy.last.op = "whole"
DepthRegen == pc = "dyn" /\ dy.last.op = "depth"
OldRun == dy.last.old
NewRun == dy.last.new
KeysOf(run) == {run[i].key : i \in 1..Len(run)} \ {None}
KeySeq(run) == [i \in 1..Len(run) |-> run[i].key]
KeyNoDup(run) == \A i, j \in 1..Len(run) : (run[i].key # None /\ run[i].key = run[j].key) => i = j
\* the keys of each run are unique, as the data model requires of the generator
UniqueKeys == KeyNoDup(OldRun) /\ KeyNoDup(NewRun)

AllKeyed(run) == \A i \in 1..Len(run) : run[i].key # None
RemoveAt(q, k) == SubSeq(q, 1, k - 1) \o SubSeq(q, k + 1, Len(q))
\* the regeneration added one element to a keyed run / removed the last one of it
OneAdded ==
  /\ WholeRegen /\ UniqueKeys /\ AllKeyed(OldRun) /\ AllKeyed(NewRun)
  /\ \E k \in 1..Len(NewRun) : RemoveAt(KeySeq(NewRun), k) = KeySeq(OldRun)
LastRemoved ==
  /\ WholeRegen /\ UniqueKeys /\ AllKeyed(OldRun) /\ Len(OldRun) >= 2
  /\ KeySeq(NewRun) = Front(KeySeq(OldRun))
HooksOfOneChange ==
  /\ OneAdded => CountKind("key_mounted") = 1 /\ CountKind("key_disposed") = 0
  /\ LastRemoved => CountKind("key_disposed") = 1 /\ CountKind("key_mounted") = 0

RunLen == Len(dy.children[1]) - 2

\* C5: for a WholeSubtree generator the recorded width is the number of siblings its
\* run occupies in the tree, which is the length of the last fragment, or 1 when that
\* fragment was empty; the run is never empty.
C5_WidthIsRunLength ==
  (pc = "dyn" /\ dy.scenario = "spread" /\ dy.panic = "") =>
    /\ dy.gen_info.kind = "WholeSubtree"
    /\ dy.gen_info.width = RunLen
    /\ RunLen = (IF dy.built = <<>> THEN 1 ELSE Len(dy.built))
    /\ RunLen >= 1

\* a run of three was regenerated from an empty fragment, after an earlier regeneration
C5_Witness ==
  /\ WholeRegen /\ dy.regens >= 2
  /\ Len(OldRun) = 3 /\ dy.built = <<>> /\ RunLen = 1

\* C6: after DynDepth regenerations with chains of arbitrary depths the static child
\* is attached beneath the leaf of the current generated chain with its id and widget
\* unchanged, and the recorded depth is the distance from the generator to it.
C6_StaticChildUnderLeaf ==
  (pc = "dyn" /\ dy.scenario = "depth" /\ dy.gen_info.kind = "DynDepth" /\ dy.panic = "") =>
    /\ ~dy.hung
    /\ dy.static \in dy.alive /\ dy.data[dy.static].oid = dy.static
    /\ dy.children[dy.parent[dy.static]] = <<dy.static>>
    /\ single_down(dy, dy.sign, dy.gen_info.depth) = dy.static

\* C7: a DynDepth regeneration terminates for every depth of the new chain and calls
\* on_mounted exactly once on each node of the chain, from its root to its leaf.
C7_MountsChainOnce ==
  (DepthRegen /\ dy.panic = "") =>
    /\ ~dy.hung
    /\ \A i \in 1..Len(NewRun) : CountEv("on_mounted", NewRun[i].oid) = 1

\* C14: whenever a regeneration removes the subtrees of the old run (runs with unique
\* keys), every key holder of the old run whose key is not the key of a new widget has
\* got its disposed hook exactly once when the regeneration is over
C14_DisposedOnEveryDroppedKeyHolder ==
  ((WholeRegen \/ DepthRegen) /\ UniqueKeys /\ dy.panic = "" /\ ~dy.hung) =>
    \A i \in 1..Len(OldRun) :
      (OldRun[i].key # None /\ OldRun[i].key \notin KeysOf(NewRun)
         /\ CountEv("on_disposed", OldRun[i].oid) > 0)
        => CountEv("key_disposed", OldRun[i].oid) = 1

\* the tree around the generator
TreeOf(d) == [data |-> d.data, parent |-> d.parent, children |-> d.children,
              alive |-> d.alive, sign |-> d.sign]

\* a step from a state without a pending fragment to a state without one is a layout
NoPendingLayout == pc = "dyn" /\ ~dy.dyns.some /\ ~dy'.dyns.some
\* the layout left the tree and the GenerationInfo alone and called no lifecycle hook
LayoutWasNoOp ==
  /\ TreeOf(dy') = TreeOf(dy)
  /\ dy'.gen_info = dy.gen_info /\ dy'.inner = dy.inner
  /\ dy'.events = <<>> /\ dy'.regens = dy.regens /\ dy'.panic = ""
\* a fragment is consumed by the regeneration of the layout that takes it
ConsumedByOneRegen ==
  /\ (dy.dyns.some /\ ~dy'.dyns.some) => dy'.regens = dy.regens + 1
  /\ ~(dy.dyns.some /\ ~dy'.dyns.some) => dy'.regens = dy.regens
  /\ (dy.dyns.some /\ take_spread_cnt(dy.gen_info) = None /\ dy' # dy) => ~dy'.dyns.some

\* C21 (as stated): every layout without a pending fragment leaves the tree, the
\* GenerationInfo and the lifecycle calls unchanged, and a pending fragment is consumed
\* by exactly one regeneration.
C21_NoPendingLayoutIsNoOp ==
  [][(NoPendingLayout => LayoutWasNoOp) /\ ConsumedByOneRegen]_vars

\* C21 (amended): every layout without a pending fragment of a generator whose
\* directly_spread flag is clear leaves the tree, the GenerationInfo and the lifecycle
\* calls unchanged; a pending fragment is consumed by exactly one regeneration, in the
\* first layout after the flag is clear, and the layout after it is such a no-op.
C21_RegenOnlyWhenPending ==
  [][/\ (NoPendingLayout /\ take_spread_cnt(dy.gen_info) = None) => LayoutWasNoOp
     /\ ConsumedByOneRegen]_vars

\* a layout that found nothing pending, after a regeneration
C21_Witness ==
  /\ pc = "dyn" /\ dy.panic = "" /\ ~dy.hung
  /\ dy.regens > 0 /\ ~dy.dyns.some /\ dy.last.op = "none"

\* the step is the first regeneration of the generator / of the DynRender that spread()
\* left in the anchor: it has no GenerationInfo and its pending fragment is taken
FirstRegen == pc = "dyn" /\ dy.gen_info.kind = "None" /\ dy.dyns.some /\ ~dy'.dyns.some
InnerFirstRegen ==
  pc = "dyn" /\ dy.inner.gen_info.kind = "None" /\ dy.inner.some /\ ~dy'.inner.some

\* C22: the first regeneration of a generator without GenerationInfo works with
\* DynDepth(1) when its node has a child (the generated chain it replaces is the node
\* alone, the child stays attached under the new chain, and what is recorded afterwards
\* is DynDepth of the new chain's depth, or still DynDepth(1) when the arm did not
\* return), and with WholeSubtree { width: 1, directly_spread: false } when it has none.
C22_FirstGenerationInfo ==
  [][/\ FirstRegen =>
          IF has_child(dy, dy.sign)
          THEN /\ dy'.gen_info.kind = "DynDepth"
               /\ (dy'.hung \/ dy'.panic # "") => dy'.gen_info = DynDepth(1)
               /\ (~dy'.hung /\ dy'.panic = "") =>
                    /\ Len(dy'.last.old) = 1 /\ dy'.last.old[1].oid = dy.data[dy.sign].oid
                    /\ dy.children[dy.sign] = <<dy.static>> /\ dy.static \in dy'.alive
                    /\ dy'.gen_info = DynDepth(Len(dy'.last.new))
          ELSE dy'.gen_info = WholeSubtree(Len(dy'.last.new), FALSE)
     /\ InnerFirstRegen =>
          IF has_child(dy, dy.sign)
          THEN dy'.inner.gen_info.kind = "DynDepth"
          ELSE dy'.inner.gen_info = WholeSubtree(1, FALSE)]_vars

\* the generator with a static child has regenerated once and holds DynDepth
C22_Witness ==
  /\ pc = "dyn" /\ dy.scenario = "depth" /\ dy.regens = 1 /\ dy.last.op = "depth"
  /\ dy.panic = "" /\ ~dy.hung /\ dy.gen_info = DynDepth(1) /\ dy.static \in dy.alive

\* gi2 is gi with at most the fields of its own kind changed
SameKind(gi, gi2) ==
  gi.kind # "None" =>
    /\ gi2.kind = gi.kind
    /\ gi.kind = "DynDepth" => (gi2.width = gi.width /\ gi2.directly_spread = gi.directly_spread)
    /\ gi.kind = "WholeSubtree" => gi2.depth = gi.depth

\* C23: once a GenerationInfo is established (of the generator, and of the DynRender
\* spread() left in it) no step changes its kind: a DynDepth changes only its depth, a
\* WholeSubtree only its width and directly_spread.
C23_KindNeverChanges ==
  [][SameKind(dy.gen_info, dy'.gen_info) /\ SameKind(dy.inner.gen_info, dy'.inner.gen_info)]_vars

\* a WholeSubtree generator that was spread with one width has regenerated twice and
\* holds another width
C23_Witness ==
  /\ pc = "dyn" /\ dy.panic = "" /\ dy.regens = 2
  /\ dy.gen_info = WholeSubtree(3, FALSE) /\ Len(dy.last.old) = 1

\* the siblings of the run of a WholeSubtree generator, the anchor first
RunIds == SubSeq(dy.children[1], 2, 1 + dy.gen_info.width)
\* every sibling of the run has got on_mounted once, and its key hook mounted once when
\* it is a key holder, in the layout that led to this state
RunMountedOnce ==
  \A i \in 1..Len(RunIds) :
    /\ CountEv("on_mounted", dy.data[RunIds[i]].oid) = 1
    /\ has_key(dy, RunIds[i]) => CountEv("key_mounted", dy.data[RunIds[i]].oid) = 1

\* C24: the layout that takes the spread branch (the first layout of a directly spread
\* anchor of width w) fires mounted exactly once for each of the w siblings placed at
\* construction and clears directly_spread; once the flag is clear no layout takes the
\* spread branch and the flag stays clear.
C24_SpreadMountsEachSiblingOnce ==
  [][/\ (pc = "dyn" /\ dy'.last.op = "spread") =>
          /\ dy.gen_info.directly_spread /\ ~dy'.gen_info.directly_spread
          /\ dy'.panic = "" /\ RunMountedOnce'
     /\ (pc = "dyn" /\ ~dy.gen_info.directly_spread) =>
          (dy'.last.op # "spread" /\ ~dy'.gen_info.directly_spread)]_vars

\* C25: after a DynDepth regeneration, when the old and the new generated root are key
\* holders with equal keys the new one has got record_before_value(old) once and no key
\* hook mounted or disposed has fired; in every other case the old root, when it is a
\* key holder, has got disposed exactly once and the new root, when it is a key holder,
\* has got mounted exactly once. The regeneration does not panic.
C25_DynDepthKeyLifecycle ==
  DepthRegen =>
    LET old == OldRun[1] new == NewRun[1] IN
    /\ dy.panic = ""
    /\ IF old.key # None /\ old.key = new.key
       THEN /\ CountEv("record_before_value", new.oid) = 1
            /\ CountKind("key_mounted") = 0 /\ CountKind("key_disposed") = 0
       ELSE /\ CountKind("record_before_value") = 0
            /\ CountEv("key_disposed", old.oid) = (IF old.key # None THEN 1 ELSE 0)
            /\ CountEv("key_mounted", new.oid) = (IF new.key # None THEN 1 ELSE 0)

\* the node id is in the tree and holds the widget it held at construction
KeepsId(id) == id \in dy.alive /\ dy.data[id].oid = id

\* C26: in every state that no rejected fragment has led to (a regeneration that fails
\* its assertion is not completed) the generator's id is in the tree under its parent,
\* and after a regeneration it holds the first widget of the new fragment; the parent
\* keeps its id, and so do the static siblings around a WholeSubtree run and the static
\* child of a DynDepth generator, which stays below the generator.
C26_GeneratorIdIsStable ==
  (pc = "dyn" /\ dy.panic # "assert_eq new_widgets.len()") =>
    /\ dy.sign \in dy.alive /\ dy.parent[dy.sign] = 1
    /\ KeepsId(1) /\ dy.parent[1] = None
    /\ (WholeRegen \/ DepthRegen) =>
         /\ NewRun[1].id = dy.sign /\ OldRun[1].id = dy.sign
         /\ dy.data[dy.sign].oid = NewRun[1].oid
         /\ dy.panic = "" => NewRun[1].oid \notin {OldRun[i].oid : i \in 1..Len(OldRun)}
    /\ dy.scenario = "spread" =>
         /\ KeepsId(dy.before) /\ KeepsId(dy.after)
         /\ Head(dy.children[1]) = dy.before /\ Last(dy.children[1]) = dy.after
         /\ dy.children[1][2] = dy.sign
    /\ dy.scenario = "depth" =>
         /\ KeepsId(dy.static) /\ dy.children[1] = <<dy.sign>>
         /\ dy.static \in Range(chain_ids(dy, dy.sign))

\* a DynDepth and a WholeSubtree generator after their second regeneration
C26_Witness ==
  /\ pc = "dyn" /\ dy.panic = "" /\ ~dy.hung /\ dy.regens = 2
  /\ (DepthRegen \/ (WholeRegen /\ Len(NewRun) = 2 /\ Len(OldRun) = 3))

\* the step is a layout that takes the pending fragment of a generator whose node has
\* a child (its GenerationInfo is DynDepth, or becomes DynDepth in this regeneration)
DepthTakes ==
  /\ pc = "dyn" /\ dy.dyns.some /\ ~dy'.dyns.some
  /\ \/ dy.gen_info.kind = "DynDepth"
     \/ dy.gen_info.kind = "None" /\ has_child(dy, dy.sign)
\* the step is a layout that regenerates from an empty fragment
TakesEmpty == pc = "dyn" /\ dy.dyns.some /\ ~dy'.dyns.some /\ dy.dyns.frag = <<>>

\* C28: a DynDepth regeneration from a fragment of more than one widget fails the
\* assertion and the GenerationInfo stays DynDepth; a regeneration from an empty
\* fragment, of either kind, does not panic and leaves exactly one new node in the
\* generator's place, a keyless placeholder built in this regeneration.
C28_MultiRejectedEmptyIsPlaceholder ==
  [][/\ (DepthTakes /\ Len(dy.dyns.frag) > 1) =>
          /\ dy'.panic = "assert_eq new_widgets.len()"
          /\ dy'.gen_info.kind = "DynDepth"
     /\ (DepthTakes /\ Len(dy.dyns.frag) <= 1) => dy'.panic # "assert_eq new_widgets.len()"
     /\ TakesEmpty =>
          /\ dy'.panic = "" /\ ~dy'.hung
          /\ Len(dy'.last.new) = 1
          /\ dy'.last.new[1] = [id |-> dy.sign, oid |-> Len(dy.data) + 1, key |-> None]
          /\ dy'.data[dy.sign] = [oid |-> Len(dy.data) + 1, key |-> None]
          /\ Len(dy'.data) = Len(dy.data) + 1
          /\ dy'.gen_info \in {DynDepth(1), WholeSubtree(1, FALSE)}]_vars

\* a DynDepth generator was given two widgets in its second regeneration
C28_Witness ==
  /\ pc = "dyn" /\ dy.scenario = "depth" /\ dy.regens = 2
  /\ dy.panic = "assert_eq new_widgets.len()" /\ dy.gen_info = DynDepth(1)
  /\ Len(dy.built) = 2

\* the widgets (by object) of the nodes ids of d
OidsAt(d, ids) == {d.data[id].oid : id \in ids}

\* C34: a WholeSubtree regeneration puts the new run where the old run was, with the
\* generator's id first, removes exactly the `width` siblings of the old run, and
\* leaves the parent's children before and after the run with their ids, their widgets
\* and their order
C34_WholeRegenTouchesOnlyRun ==
  [][(pc = "dyn" /\ dy'.last.op = "whole" /\ dy'.panic = "") =>
       LET p == dy.parent[dy.sign]
           old == dy.children[p]
           new == dy'.children[p]
           at == IndexOf(old, dy.sign)
           w == dy.gen_info.width
           k == Len(dy'.last.new)
       IN /\ dy'.parent[dy.sign] = p
          /\ Len(new) = Len(old) - w + k
          /\ SubSeq(new, 1, at - 1) = SubSeq(old, 1, at - 1)
          /\ SubSeq(new, at + k, Len(new)) = SubSeq(old, at + w, Len(old))
          /\ SubSeq(new, at, at + k - 1) = [i \in 1..k |-> dy'.last.new[i].id]
          /\ new[at] = dy.sign
          /\ \A c \in Range(SubSeq(old, 1, at - 1)) \cup Range(SubSeq(old, at + w, Len(old))) :
               c \in dy'.alive /\ dy'.data[c] = dy.data[c] /\ dy'.children[c] = dy.children[c]
          /\ Len(dy'.last.old) = w
          /\ OidsAt(dy, Range(SubSeq(old, at, at + w - 1))) \cap OidsAt(dy', dy'.alive) = {}
          /\ Range(SubSeq(old, at + 1, at + w - 1)) \cap dy'.alive = {}]_vars

\* a run of three was replaced by a run of two, between the two static siblings
C34_Witness ==
  /\ WholeRegen /\ dy.panic = "" /\ dy.regens >= 2
  /\ Len(OldRun) = 3 /\ Len(NewRun) = 2
  /\ dy.children[1] = <<dy.before, NewRun[1].id, NewRun[2].id, dy.after>>

\* -------------------------------------------------------- SpecTex: claims
\* the calls i < j of the log are calls of op with the same arguments in one frame
SameCallAgain(op, i, j) ==
  /\ i < j
  /\ tm.log[i].op = op /\ tm.log[j].op = op
  /\ tm.log[i].args = tm.log[j].args
  /\ tm.log[i].frame = tm.log[j].frame

VertexOf(task, p) ==
  LET corner == IF p % 3 = 0 THEN 1 ELSE (p \div 3) + (p % 3) + 1 IN
  [x |-> task.path[corner].to.x * task.ts.scale + 1000 * task.ts.tx,
   y |-> task.path[corner].to.y * task.ts.scale + 1000 * task.ts.ty]

\* what a call that found the queue q has to have done, by the record d it left
DrawnOnce(q, d) ==
  LET n == Len(q)
      di == d.draw_indices
      len == Len(d.loaded.indices)
      CallsAt(j) == {c \in 1..Len(d.calls) : d.calls[c].rg.start <= j /\ j < d.calls[c].rg.end}
  IN \* the tasks tessellated are the tasks queued, one range of indices each, and the
     \* indices of a range name the vertices of its task
     /\ Len(d.sorted) = n /\ Len(di) = n
     /\ \A i \in 1..n :
          Cardinality({k \in 1..n : d.sorted[k] = q[i]}) = Cardinality({k \in 1..n : q[k] = q[i]})
     /\ \A k \in 1..n :
          /\ di[k].rg.start = (IF k = 1 THEN 0 ELSE di[k - 1].rg.end)
          /\ di[k].rg.end - di[k].rg.start = 3 * (Len(d.sorted[k].path) - 2)
                \/ (Len(d.sorted[k].path) < 2 /\ di[k].rg.end = di[k].rg.start)
          /\ \A j \in di[k].rg.start..(di[k].rg.end - 1) :
               d.loaded.vertices[d.loaded.indices[j + 1] + 1]
                 = VertexOf(d.sorted[k], j - di[k].rg.start)
     /\ (n > 0 => di[n].rg.end = len)
     \* every index is drawn by exactly one call, and that call draws into the texture
     \* of the task, with its clip rectangle when it has one
     /\ \A k \in 1..n :
          /\ \A j \in di[k].rg.start..(di[k].rg.end - 1) :
               /\ Cardinality(CallsAt(j)) = 1
               /\ \A c \in CallsAt(j) :
                    /\ d.calls[c].tex_id = d.sorted[k].slice.tex_id
                    /\ d.calls[c].clip_rect = d.sorted[k].clip_rect
          /\ IF d.sorted[k].clip_rect # <<>>
             THEN Cardinality({c \in 1..Len(d.calls) : d.calls[c] = di[k]}) = 1
             ELSE Cardinality({c \in 1..Len(d.calls) :
                                 /\ d.calls[c].clip_rect = <<>>
                                 /\ d.calls[c].tex_id = d.sorted[k].slice.tex_id}) = 1
     \* the calls with a scissor come first; there are no other calls
     /\ \A a, b \in 1..Len(d.calls) :
          (a < b /\ d.calls[b].clip_rect # <<>>) => d.calls[a].clip_rect # <<>>
     /\ \A c \in 1..Len(d.calls) :
          \E k \in 1..n : /\ d.calls[c].tex_id = d.sorted[k].slice.tex_id
                          /\ d.calls[c].clip_rect = d.sorted[k].clip_rect

\* C36: draw_alpha_textures does nothing when no fill task is queued; otherwise every
\* queued fill task is drawn exactly once, the clipped tasks (with a scissor) before
\* the others, the others grouped by texture with index ranges that cover the indices
\* of each task exactly once, and afterwards the queue of fill tasks and the vertex
\* and index buffers are empty.
C36_DrawAlphaTextures ==
  [][(pc = "draw" /\ tm'.calls = tm.calls + 1 /\ tm'.last.op = "draw_alpha_textures") =>
       IF tm.fill_task = <<>>
       THEN tm' = [tm EXCEPT !.calls = @ + 1, !.last = tm'.last] /\ tm'.last.queued = <<>>
       ELSE /\ tm'.last.queued = tm.fill_task
            /\ DrawnOnce(tm.fill_task, tm'.last)
            /\ tm'.fill_task = <<>>
            /\ tm'.fill_task_buffers = [vertices |-> <<>>, indices |-> <<>>]]_vars

\* a draw of more tasks than one chunk holds, clipped ones among them and the others
\* in more than one texture, has returned
C36_Witness ==
  /\ pc = "draw" /\ tm.last.op = "draw_alpha_textures"
  /\ Len(tm.last.queued) > PAR_CHUNKS_SIZE
  /\ \E a, b, c \in 1..Len(tm.last.queued) :
       /\ tm.last.queued[a].clip_rect # <<>>
       /\ tm.last.queued[b].clip_rect = <<>> /\ tm.last.queued[c].clip_rect = <<>>
       /\ tm.last.queued[b].slice.tex_id # tm.last.queued[c].slice.tex_id
  /\ Len(tm.last.calls) > 2
  /\ tm.fill_task = <<>>

\* -------------------------------------------------------- SpecText: claims
\* the glyph after the one of the record e was given to advance_glyph as well
PlacedNext(e) == \E f \in Range(tp.log) : f.run = e.run /\ f.i = e.i + 1

\* C37: when a run is placed with a bounds-limited cursor, advance_glyph returns true
\* exactly when the glyph has moved the cursor out of the bounds, and place_glyphs
\* places the glyphs of the run up to the first one that leaves the bounds and stops
\* only then. Stated for the calls of typography_all that return.
C37_OverBoundaryExact ==
  (pc = "text" /\ tp.done /\ tp.panic = "") =>
    \A e \in Range(tp.log) :
      e.bounded =>
        /\ e.over <=> ~e.inside
        /\ e.i < e.n => (PlacedNext(e) <=> e.inside)

\* C38: typography_all never pushes a glyph without a current visual line: whatever
\* the line direction and the alignments, push_glyph finds a line when it is called,
\* so its unwrap of the last line does not fail.
C38_GlyphHasLine ==
  pc = "text" => (tp.panic = "" /\ \A e \in Range(tp.log) : e.lines > 0)

====
